---- MODULE Spec2Model ----
(***************************************************************************)
(* Motion-control kernel of the 6-DOF robot arm: RobotController (cyclic   *)
(* control loop, move commands, emergency stop), the Kinematics solver it  *)
(* owns, and SafetyMonitor (periodic limit / workspace / collision checks  *)
(* and the stop state machine).                                            *)
(*                                                                         *)
(* Numbers.  The program computes in IEEE doubles; the model computes in   *)
(* fixed point with SCALE units per radian / per length unit / per unit of *)
(* a rotation-matrix entry (1 unit = 1e-4).  Every rational constant of    *)
(* the source is written in those units (2.97 rad = 29700).                *)
(***************************************************************************)
EXTENDS Integers, Sequences, FiniteSets, TLC

SCALE == 10 ^ 4

\* Math.PI in SCALE units.
PI == 31416

HALF_PI == PI \div 2

TWO_PI == 2 * PI

Abs(x) == IF x < 0 THEN -x ELSE x

Min2(a, b) == IF a <= b THEN a ELSE b

Max2(a, b) == IF a >= b THEN a ELSE b

\* Rounded quotient a / b for b > 0 (the nearest integer, halves upward).
RoundDiv(a, b) == (2 * a + b) \div (2 * b)

\* Quotient truncated toward zero, for b > 0.
TruncDiv(a, b) == IF a >= 0 THEN a \div b ELSE -((-a) \div b)

\* Fixed-point product and quotient.
FMul(a, b) == RoundDiv(a * b, SCALE)

FDiv(a, b) == IF b > 0 THEN RoundDiv(a * SCALE, b) ELSE -RoundDiv(a * SCALE, -b)

\* Integer square root (floor), by bisection on [lo, hi].
RECURSIVE ISqrtIn(_, _, _)
ISqrtIn(n, lo, hi) ==
  IF lo >= hi THEN lo
  ELSE LET mid == (lo + hi + 1) \div 2
       IN IF mid * mid <= n THEN ISqrtIn(n, mid, hi) ELSE ISqrtIn(n, lo, mid - 1)

ISqrt(n) == IF n <= 0 THEN 0 ELSE ISqrtIn(n, 0, Min2(n, 46340))

\* Math.sqrt of a fixed-point value v (v / SCALE <= 20).
FSqrt(v) == ISqrt(v * SCALE)

\* An angle brought into (-PI, PI].
RECURSIVE WrapAngle(_)
WrapAngle(a) ==
  IF a > PI THEN WrapAngle(a - TWO_PI)
  ELSE IF a <= -PI THEN WrapAngle(a + TWO_PI)
  ELSE a

\* Local values are passed as operator arguments throughout, so that each is
\* computed once.

\* sin on [0, PI/2]: the Taylor polynomial to x^9, in Horner form; x2 = x^2.
SinPoly(x, x2) ==
  Min2(SCALE,
       FMul(x, SCALE - RoundDiv(FMul(x2,
                 SCALE - RoundDiv(FMul(x2,
                   SCALE - RoundDiv(FMul(x2,
                     SCALE - RoundDiv(x2, 72)), 42)), 20)), 6)))

SinQ(x) == SinPoly(x, FMul(x, x))

\* sin of an angle w in (-PI, PI], by the symmetries of the sine.
SinWrapped(w) ==
  IF w < -HALF_PI THEN -SinQ(PI + w)
  ELSE IF w < 0 THEN -SinQ(-w)
  ELSE IF w > HALF_PI THEN SinQ(PI - w)
  ELSE SinQ(w)

\* Math.sin
Sin(a) == SinWrapped(WrapAngle(a))

\* Math.cos
Cos(a) == Sin(a + HALF_PI)

\* atan of a halved argument h: the Taylor polynomial to h^9; h2 = h^2.
AtanPoly(h, h2) ==
  2 * FMul(h, SCALE - FMul(h2, RoundDiv(SCALE, 3)
                 - FMul(h2, RoundDiv(SCALE, 5)
                     - FMul(h2, RoundDiv(SCALE, 7) - RoundDiv(h2, 9)))))

AtanHalved(h) == AtanPoly(h, FMul(h, h))

\* atan on [0, 1]: atan t = 2 atan(t / (1 + sqrt(1 + t^2))).
AtanUnit(t) == AtanHalved(FDiv(t, SCALE + FSqrt(SCALE + FMul(t, t))))

\* atan2 in the first quadrant, for ay, ax >= 0; atan2(0, 0) = 0.
AtanFirst(ay, ax) ==
  IF ax = 0 /\ ay = 0 THEN 0
  ELSE IF ay <= ax THEN AtanUnit(RoundDiv(ay * SCALE, ax))
  ELSE HALF_PI - AtanUnit(RoundDiv(ax * SCALE, ay))

\* The first-quadrant angle a0 moved to the quadrant of (x, y).
AtanQuadrant(y, x, a0) ==
  IF y < 0 THEN (IF x < 0 THEN a0 - PI ELSE -a0)
  ELSE (IF x < 0 THEN PI - a0 ELSE a0)

\* Large arguments are divided by k together first (atan2 depends on their
\* ratio only).
AtanScaled(y, x, k) == AtanQuadrant(y, x, AtanFirst(Abs(y) \div k, Abs(x) \div k))

\* Math.atan2(y, x)
Atan2(y, x) == AtanScaled(y, x, (Max2(Abs(x), Abs(y)) \div (10 * SCALE)) + 1)

\* Math.asin(v) for |v| <= 1.
Asin(v) == Atan2(v, FSqrt(SCALE - FMul(v, v)))

(***************************************************************************)
(* Kinematics (RobotController.js, class Kinematics)                       *)
(***************************************************************************)

\* The six joints, numbered as the source's array indices 0..5 plus one.
Joints == 1..6

\* Modified DH parameters of the arm: a, alpha, d, theta per joint.
DH_PARAMS ==
  << [a |-> 0,    alpha |-> 0,        d |-> 2670, theta |-> 0],
     [a |-> 2900, alpha |-> -HALF_PI, d |-> 0,    theta |-> 0],
     [a |-> 0,    alpha |-> HALF_PI,  d |-> 3420, theta |-> 0],
     [a |-> 0,    alpha |-> -HALF_PI, d |-> 0,    theta |-> 0],
     [a |-> 0,    alpha |-> HALF_PI,  d |-> 3420, theta |-> 0],
     [a |-> 0,    alpha |-> -HALF_PI, d |-> 0,    theta |-> 0] >>

\* math.identity(4)
Identity4 ==
  << <<SCALE, 0, 0, 0>>, <<0, SCALE, 0, 0>>, <<0, 0, SCALE, 0>>, <<0, 0, 0, SCALE>> >>

\* One entry of the product of two 4x4 matrices.
MatEntry(A, B, i, j) ==
  RoundDiv(A[i][1] * B[1][j] + A[i][2] * B[2][j]
           + A[i][3] * B[3][j] + A[i][4] * B[4][j], SCALE)

MatRow(A, B, i) ==
  << MatEntry(A, B, i, 1), MatEntry(A, B, i, 2), MatEntry(A, B, i, 3),
     MatEntry(A, B, i, 4) >>

\* math.multiply of two 4x4 matrices.
MatMul(A, B) == << MatRow(A, B, 1), MatRow(A, B, 2), MatRow(A, B, 3), MatRow(A, B, 4) >>

\* The DH matrix from the cosines and sines of theta and alpha.
DHMatrix(ct, st, ca, sa, a, d) ==
  << <<ct, -st, 0, a>>,
     <<FMul(st, ca), FMul(ct, ca), -sa, -FMul(d, sa)>>,
     <<FMul(st, sa), FMul(ct, sa), ca, FMul(d, ca)>>,
     <<0, 0, 0, SCALE>> >>

buildDHMatrix(a, alpha, d, theta) ==
  DHMatrix(Cos(theta), Sin(theta), Cos(alpha), Sin(alpha), a, d)

\* The regular case of the Euler decomposition: ry and its cosine known.
EulerRegular(T, ry, cry) ==
  [rx |-> Atan2(FDiv(T[3][2], cry), FDiv(T[3][3], cry)),
   ry |-> ry,
   rz |-> Atan2(FDiv(T[2][1], cry), FDiv(T[1][1], cry))]

EulerOfPitch(T, ry) == EulerRegular(T, ry, Cos(ry))

\* Euler angles of the rotation part of a transform; gimbal lock when
\* |r31| >= 0.99999.
extractEulerAngles(T) ==
  IF Abs(T[3][1]) * 10 < 99999
  THEN EulerOfPitch(T, -Asin(T[3][1]))
  ELSE IF T[3][1] < 0
       THEN [rx |-> 0, ry |-> HALF_PI, rz |-> Atan2(T[1][2], T[1][3])]
       ELSE [rx |-> 0, ry |-> -HALF_PI, rz |-> Atan2(-T[1][2], -T[1][3])]

\* The product of the DH transforms of joints 1..n.
RECURSIVE ChainTransform(_, _)
ChainTransform(joints, n) ==
  IF n = 0 THEN Identity4
  ELSE MatMul(ChainTransform(joints, n - 1),
              buildDHMatrix(DH_PARAMS[n].a, DH_PARAMS[n].alpha, DH_PARAMS[n].d,
                            DH_PARAMS[n].theta + joints[n]))

\* Position and orientation read off the end-effector transform.
PoseOfTransform(T) ==
  [position |-> [x |-> T[1][4], y |-> T[2][4], z |-> T[3][4]],
   orientation |-> extractEulerAngles(T)]

forwardKinematics(joints) == PoseOfTransform(ChainTransform(joints, 6))

\* Rotation about one axis as a homogeneous transform (the Rx, Ry, Rz of
\* poseToMatrix), from the cosine c and sine s of the angle.
RotX(c, s) ==
  << <<SCALE, 0, 0, 0>>, <<0, c, -s, 0>>, <<0, s, c, 0>>, <<0, 0, 0, SCALE>> >>

RotY(c, s) ==
  << <<c, 0, s, 0>>, <<0, SCALE, 0, 0>>, <<-s, 0, c, 0>>, <<0, 0, 0, SCALE>> >>

RotZ(c, s) ==
  << <<c, -s, 0, 0>>, <<s, c, 0, 0>>, <<0, 0, SCALE, 0>>, <<0, 0, 0, SCALE>> >>

\* The rotation R with the position in the last column.
WithPosition(R, position) ==
  << <<R[1][1], R[1][2], R[1][3], position.x>>,
     <<R[2][1], R[2][2], R[2][3], position.y>>,
     <<R[3][1], R[3][2], R[3][3], position.z>>,
     <<0, 0, 0, SCALE>> >>

\* R = Rz * Ry * Rx, with the position in the last column.
poseToMatrix(pose) ==
  WithPosition(
    MatMul(MatMul(RotZ(Cos(pose.orientation.rz), Sin(pose.orientation.rz)),
                  RotY(Cos(pose.orientation.ry), Sin(pose.orientation.ry))),
           RotX(Cos(pose.orientation.rx), Sin(pose.orientation.rx))),
    pose.position)

\* End-effector position moved back by d6 along the approach (Z) axis.
calculateWristCenter(targetMatrix) ==
  [x |-> targetMatrix[1][4] - FMul(targetMatrix[1][3], DH_PARAMS[6].d),
   y |-> targetMatrix[2][4] - FMul(targetMatrix[2][3], DH_PARAMS[6].d),
   z |-> targetMatrix[3][4] - FMul(targetMatrix[3][3], DH_PARAMS[6].d)]

\* Beyond this distance on any axis the wrist centre is out of reach whatever
\* the rest (|D| > 1); products of larger coordinates are not formed.
FarAway == 2 * SCALE

\* One elbow branch: theta2 from theta3, with k1 = a2 + d4 cos(theta3) and
\* k2 = d4 sin(theta3).
ElbowBranch(theta1, theta3, z_rel, r) ==
  << theta1,
     Atan2(z_rel, r) - Atan2(FMul(DH_PARAMS[3].d, Sin(theta3)),
                             DH_PARAMS[2].a + FMul(DH_PARAMS[3].d, Cos(theta3))),
     theta3, 0, 0, 0 >>

\* Elbow up and elbow down.
ElbowPair(theta1, theta3_offset, z_rel, r) ==
  << ElbowBranch(theta1, theta3_offset, z_rel, r),
     ElbowBranch(theta1, -theta3_offset, z_rel, r) >>

\* D = num / den is the cosine of theta3; no branch when |D| > 1.
ElbowReach(theta1, num, den, z_rel, r) ==
  IF Abs(num) > den THEN << >>
  ELSE ElbowPair(theta1,
                 Atan2(FSqrt(SCALE - FMul(RoundDiv(num, den \div SCALE),
                                          RoundDiv(num, den \div SCALE))),
                       RoundDiv(num, den \div SCALE)),
                 z_rel, r)

ElbowPlanar(theta1, z_rel, r) ==
  ElbowReach(theta1,
             r * r + z_rel * z_rel - DH_PARAMS[2].a * DH_PARAMS[2].a
               - DH_PARAMS[3].d * DH_PARAMS[3].d,
             2 * DH_PARAMS[2].a * DH_PARAMS[3].d, z_rel, r)

\* The two elbow branches of one base angle theta1; none when |D| > 1.
ElbowBranches(theta1, wristCenter) ==
  IF \/ Abs(wristCenter.x) > FarAway
     \/ Abs(wristCenter.y) > FarAway
     \/ Abs(wristCenter.z - DH_PARAMS[1].d) > FarAway
  THEN << >>
  ELSE ElbowPlanar(theta1, wristCenter.z - DH_PARAMS[1].d,
                   ISqrt(wristCenter.x * wristCenter.x + wristCenter.y * wristCenter.y))

BothBases(theta1_base, wristCenter) ==
  ElbowBranches(theta1_base, wristCenter)
    \o ElbowBranches(theta1_base + PI, wristCenter)

\* Position sub-problem: theta1 = atan2(y, x) or that plus PI, each with two
\* elbow branches.
solveFirstThreeJoints(wristCenter) ==
  BothBases(IF Abs(wristCenter.x) > FarAway \/ Abs(wristCenter.y) > FarAway
            THEN 0 ELSE Atan2(wristCenter.y, wristCenter.x),
            wristCenter)

\* One entry of the position column of the inverse: -(R^T p)[i].
InversePosition(T, i) ==
  -RoundDiv(T[1][i] * T[1][4] + T[2][i] * T[2][4] + T[3][i] * T[3][4], SCALE)

\* math.inv of a rigid transform: transposed rotation, position -R^T p.
RigidInverse(T) ==
  << <<T[1][1], T[2][1], T[3][1], InversePosition(T, 1)>>,
     <<T[1][2], T[2][2], T[3][2], InversePosition(T, 2)>>,
     <<T[1][3], T[2][3], T[3][3], InversePosition(T, 3)>>,
     <<0, 0, 0, SCALE>> >>

\* The same decomposition as extractEulerAngles, on the 3x3 rotation.
extractEulerAnglesFromRotation(R) ==
  IF Abs(R[3][1]) * 10 < 99999
  THEN EulerOfPitch(R, -Asin(R[3][1]))
  ELSE IF R[3][1] < 0
       THEN [rx |-> 0, ry |-> HALF_PI, rz |-> Atan2(R[1][2], R[1][3])]
       ELSE [rx |-> 0, ry |-> -HALF_PI, rz |-> Atan2(-R[1][2], -R[1][3])]

\* A base solution completed with the wrist angles e.
WithWrist(baseSolution, e) ==
  << <<baseSolution[1], baseSolution[2], baseSolution[3], e.rx, e.ry, e.rz>> >>

\* Orientation sub-problem: the Euler angles of inv(T03) * target become
\* theta4..theta6; one solution per base solution.
solveLastThreeJoints(baseSolution, targetMatrix) ==
  WithWrist(baseSolution,
            extractEulerAnglesFromRotation(
              MatMul(RigidInverse(ChainTransform(baseSolution, 3)), targetMatrix)))

\* filterValidSolutions that lets every solution pass.
keepAllSolutions(solutions) == solutions

\* The software bound of filterValidSolutions: 3.5 rad.
IK_BOUND == 35000

filterValidSolutions(solutions) ==
  SelectSeq(solutions, LAMBDA sol : \A i \in Joints : Abs(sol[i]) <= IK_BOUND)

RECURSIVE FlatMapWrist(_, _)
FlatMapWrist(baseSolutions, targetMatrix) ==
  IF baseSolutions = << >> THEN << >>
  ELSE solveLastThreeJoints(Head(baseSolutions), targetMatrix)
         \o FlatMapWrist(Tail(baseSolutions), targetMatrix)

IKOfMatrix(targetMatrix) ==
  filterValidSolutions(
    FlatMapWrist(solveFirstThreeJoints(calculateWristCenter(targetMatrix)),
                 targetMatrix))

\* All candidate joint vectors of a target pose, in the order the source
\* pushes them.
inverseKinematics(targetPose) == IKOfMatrix(poseToMatrix(targetPose))

(***************************************************************************)
(* RobotController: configuration and pure helpers                         *)
(***************************************************************************)

\* Hard joint limits of the controller, in radians * SCALE.
JOINT_LIMITS ==
  << [min |-> -29700, max |-> 29700],
     [min |-> -22700, max |-> 22700],
     [min |-> -29700, max |-> 29700],
     [min |-> -30500, max |-> 30500],
     [min |-> -22700, max |-> 22700],
     [min |-> -62800, max |-> 62800] >>

\* The convergence threshold 0.001 rad of the control loop and of the wait.
CONVERGE_EPS == 10

\* The divisor of the simulated interpolation step (diff * 0.1).
SIM_GAIN_DIV == 10

\* JavaScript's undefined, read from an array past its end; every comparison
\* with it is false.
Undefined == -(2 ^ 30)

\* targetJoints[i] of a JavaScript array (index i - 1 in the source).
Elem(vec, i) == IF i <= Len(vec) THEN vec[i] ELSE Undefined

Zero6 == <<0, 0, 0, 0, 0, 0>>

\* RobotController.checkJointLimits.  An index outside the table makes the
\* source throw a TypeError (limits is undefined); the callers test
\* RC_limitsDefined first.
RC_limitsDefined(jointIndex) == jointIndex \in DOMAIN JOINT_LIMITS

\* The limit test that compares with the lower limit only.
RC_checkLowerLimit(jointIndex, angle) ==
  /\ angle # Undefined
  /\ angle >= JOINT_LIMITS[jointIndex].min

RC_checkJointLimits(jointIndex, angle) ==
  /\ angle # Undefined
  /\ angle >= JOINT_LIMITS[jointIndex].min
  /\ angle <= JOINT_LIMITS[jointIndex].max

\* The exit test of waitForMovementComplete: every joint within the
\* threshold of its target.
allStopped(target, current) ==
  \A i \in Joints : Abs(Elem(target, i) - current[i]) <= CONVERGE_EPS

\* Sum of squared joint differences, as an exact pair <<millions, rest>>
\* (the squares do not fit one machine integer of the model checker): each
\* difference d is split as 1000 * hi + lo.
RECURSIVE SumHi(_, _, _)
SumHi(solution, current, i) ==
  IF i = 0 THEN 0
  ELSE SumHi(solution, current, i - 1)
         + (Abs(solution[i] - current[i]) \div 1000)
             * (Abs(solution[i] - current[i]) \div 1000)

RECURSIVE SumLo(_, _, _)
SumLo(solution, current, i) ==
  IF i = 0 THEN 0
  ELSE SumLo(solution, current, i - 1)
         + 2000 * (Abs(solution[i] - current[i]) \div 1000)
                * (Abs(solution[i] - current[i]) % 1000)
         + (Abs(solution[i] - current[i]) % 1000)
             * (Abs(solution[i] - current[i]) % 1000)

Carry(hi, lo) == << hi + (lo \div 1000000), lo % 1000000 >>

SquaredDistance(solution, current) ==
  Carry(SumHi(solution, current, 6), SumLo(solution, current, 6))

\* The comparison that lets an equal distance replace the best so far.
DistLessOrEqual(p, q) == p[1] < q[1] \/ (p[1] = q[1] /\ p[2] <= q[2])

DistLess(p, q) == p[1] < q[1] \/ (p[1] = q[1] /\ p[2] < q[2])

\* RobotController.selectOptimalSolution: the first candidate of least
\* squared distance from currentJoints; null (here << >>) for no candidate.
RECURSIVE SelectFrom(_, _, _)
SelectFrom(solutions, current, best) ==
  IF solutions = << >> THEN best
  ELSE IF best = << >>
          \/ DistLess(SquaredDistance(Head(solutions), current),
                      SquaredDistance(best, current))
       THEN SelectFrom(Tail(solutions), current, Head(solutions))
       ELSE SelectFrom(Tail(solutions), current, best)

selectOptimalSolution(solutions, current) == SelectFrom(solutions, current, << >>)

\* Gear ratio of each joint and the 17-bit encoder resolution.
gearRatio == <<160, 160, 120, 50, 50, 50>>

encoderResolution == 131072

\* Encoder counts per SCALE-unit of angle are encoderResolution * gear /
\* TWO_PI = EncK(j) / EncM, both sides divided by 16.
EncM == TWO_PI \div 16

EncK(jointIndex) == (encoderResolution \div 16) * gearRatio[jointIndex]

\* RobotController.jointToEncoder: Math.round(angle / 2pi * resolution * gear).
jointToEncoder(jointAngle, jointIndex) ==
  LET K == EncK(jointIndex)
  IN  jointAngle * (K \div EncM) + RoundDiv(jointAngle * (K % EncM), EncM)

\* RobotController.encoderToJoint: encoder / (resolution * gear) * 2pi,
\* rounded to the model's unit.
encoderToJoint(encoderValue, jointIndex) ==
  LET K  == EncK(jointIndex)
      q  == encoderValue \div K
      r  == encoderValue % K
      r1 == r \div 512
      r0 == r % 512
  IN  q * EncM
        + RoundDiv(r1 * EncM + RoundDiv(r0 * EncM, 512), 16 * gearRatio[jointIndex])

(***************************************************************************)
(* SafetyMonitor: configuration                                            *)
(***************************************************************************)

\* Joint limits of the monitor, with the safety margin of the soft band.
jointLimits ==
  << [min |-> -29700, max |-> 29700, margin |-> 500],
     [min |-> -22700, max |-> 22700, margin |-> 500],
     [min |-> -29700, max |-> 29700, margin |-> 500],
     [min |-> -30500, max |-> 30500, margin |-> 500],
     [min |-> -22700, max |-> 22700, margin |-> 500],
     [min |-> -62800, max |-> 62800, margin |-> 500] >>

\* The workspace box.  The source compares its numbers (400, 600) with the
\* pose numbers as they are, so they are scaled like the pose.
workspaceLimits ==
  [x |-> [min |-> -400 * SCALE, max |-> 400 * SCALE],
   y |-> [min |-> -400 * SCALE, max |-> 400 * SCALE],
   z |-> [min |-> 0, max |-> 600 * SCALE]]

(***************************************************************************)
(* Bounds and inputs of the model                                          *)
(***************************************************************************)

\* Move calls that may be in flight at once.
MaxCalls == 2

\* Move commands accepted in one run.
MaxCommands == 1

\* Control-cycle invocations that may be in flight at once (real transport).
MaxCycles == 1

\* Control-cycle invocations in flight at once where the claim is about
\* their overlap.
MaxOverlap == 2

Callers == 1..MaxCalls

\* The timeout of waitForMovementComplete counted in passes of its polling
\* loop: 30000 ms / 10 ms = 3000 in the program, a few in the model.
TimeoutPolls == 3

\* moveJoint(jointIndex, targetAngle) requests: a target inside the hard
\* limit but outside the soft band, one outside the hard limit, and an index
\* outside the table.
MoveJointInputs ==
  { <<1, 29500>>, <<1, 29800>>, <<7, 0>> }

\* moveJoints(targetJoints) requests: in limits with joint 5 at 90 degrees,
\* only the last joint out of limit, too short, too long.
MoveJointsInputs ==
  { <<5000, 0, 0, 0, 15708, 0>>,
    <<0, 0, 0, 0, 0, 62900>>,
    <<5000, 0, 0, 0, 0>>,
    <<5000, 0, 0, 0, 0, 0, 0>> }

Pose(x, y, z, rx, ry, rz) ==
  [position |-> [x |-> x, y |-> y, z |-> z],
   orientation |-> [rx |-> rx, ry |-> ry, rz |-> rz]]

\* moveToCartesian requests: x = 500 (outside the box and out of reach), a
\* reachable position below z = 0, and a point above the arm's reach.
CartesianInputs ==
  { Pose(500 * SCALE, 0, 300 * SCALE, 0, 0, 0),
    Pose(3000, 0, -1000, 0, 0, 0),
    Pose(0, 0, 9000, 0, 0, 0) }

\* The target of the scenario: moveJoints([0.5, 0, 0, 0, 0, 0], 50) from home.
ScenarioTarget == << 5000, 0, 0, 0, 0, 0 >>

\* A moveJoint request on a joint that the scenario's moveJoints leaves at
\* rest.
FrameInputs == { <<2, 1000>> }

\* moveJoint requests of the recovery scenario: joint 1 into the margin
\* below its upper limit, then back to the middle of its range.
RecoverInputs == { <<1, 29500>>, <<1, 0>> }

\* Angles a drive may report for each joint (real transport): rest, joint 1
\* outside its soft band, joint 2 where the end effector is below z = 0.
ReportedAngles ==
  << {0, 29500}, {0, 20000}, {0}, {0}, {0}, {0} >>

\* What readSDO(i, 0x6064) may return, in encoder counts.
EncoderReads(jointIndex) ==
  { jointToEncoder(a, jointIndex) : a \in ReportedAngles[jointIndex] }

(***************************************************************************)
(* State                                                                   *)
(***************************************************************************)

VARIABLES
  simulationMode,   \* RobotController.simulationMode
  isConnected,      \* RobotController.isConnected
  isMoving,         \* RobotController.isMoving
  currentJoints,    \* RobotController.currentJoints
  targetJoints,     \* RobotController.targetJoints
  endEffectorPose,  \* RobotController.endEffectorPose
  safetyStatus,     \* SafetyMonitor.safetyStatus (lastCheckTime left out)
  quickStop,        \* per drive: control word 0x010F (quick stop) was written
  cycles,           \* control-cycle invocations awaiting the transport
  pc,               \* per caller: "idle", or "waiting" in waitForMovementComplete
  issued,           \* move commands accepted so far
  elapsed,          \* per caller: sleeps of its wait so far (10 ms each)
  trajectory,       \* MotionPlanner.executeTrajectory: the call in progress,
                    \* the points it has still to send
  lastCall          \* the handler that ran last: its arguments, how it ended,
                    \* what it emitted

vars ==
  << simulationMode, isConnected, isMoving, currentJoints, targetJoints,
     endEffectorPose, safetyStatus, quickStop, cycles, pc, issued, elapsed,
     trajectory, lastCall >>

Call(op, args, result, events) ==
  [op |-> op, args |-> args, result |-> result, events |-> events]

\* No executeTrajectory call is running.
NoTrajectory ==
  [running |-> FALSE, points |-> << >>, caller |-> 0, stoppedAtStart |-> FALSE]

\* The state after the constructors and initialize(): both timers run, the
\* transport is up or the controller fell back to simulation mode.
Init ==
  /\ simulationMode \in BOOLEAN
  /\ isConnected = TRUE
  /\ isMoving = FALSE
  /\ currentJoints = Zero6
  /\ targetJoints = Zero6
  /\ endEffectorPose = [x |-> 0, y |-> 0, z |-> 0, rx |-> 0, ry |-> 0, rz |-> 0]
  /\ safetyStatus = [isActive |-> TRUE, emergencyStopped |-> FALSE,
                     limitViolations |-> << >>, collisionDetected |-> FALSE]
  /\ quickStop = [i \in Joints |-> FALSE]
  /\ cycles = << >>
  /\ pc = [c \in Callers |-> "idle"]
  /\ issued = 0
  /\ elapsed = [c \in Callers |-> 0]
  /\ trajectory = NoTrajectory
  /\ lastCall = Call("init", << >>, "ok", << >>)

(***************************************************************************)
(* RobotController: operations                                             *)
(***************************************************************************)

IsError(result) == result \in {"error:limits", "error:no-solution", "error:type"}

MoveOps == {"moveJoint", "moveJoints", "moveToCartesian"}

\* The part of the controller and monitor that a stop or a check rewrites,
\* as one record handed from one call to the next; events collects the
\* names of the events emitted on the way.
Shared(events) ==
  [targetJoints |-> targetJoints, isMoving |-> isMoving,
   safetyStatus |-> safetyStatus, quickStop |-> quickStop, events |-> events]

Install(st) ==
  /\ targetJoints' = st.targetJoints
  /\ isMoving' = st.isMoving
  /\ safetyStatus' = st.safetyStatus
  /\ quickStop' = st.quickStop

\* A handler ends: its writes are installed and its events recorded.
Finish(op, st) ==
  /\ Install(st)
  /\ lastCall' = Call(op, << >>, "ok", st.events)

\* emergencyStop without the copy of currentJoints into targetJoints.
RC_emergencyStopKeepsTarget(st) ==
  [st EXCEPT !.isMoving = FALSE,
             !.quickStop = IF ~simulationMode THEN [i \in Joints |-> TRUE] ELSE @]

\* emergencyStop whose copy misses joint 1.
RC_emergencyStopPartial(st) ==
  [st EXCEPT !.targetJoints =
               [i \in Joints |-> IF i = 1 THEN Elem(st.targetJoints, i)
                                  ELSE currentJoints[i]],
             !.isMoving = FALSE,
             !.quickStop = IF ~simulationMode THEN [i \in Joints |-> TRUE] ELSE @]

\* RobotController.emergencyStop: target := copy of current, isMoving :=
\* false, and with the real transport a quick-stop control word to each drive.
RC_emergencyStop(st) ==
  [st EXCEPT !.targetJoints = currentJoints,
             !.isMoving = FALSE,
             !.quickStop = IF ~simulationMode THEN [i \in Joints |-> TRUE] ELSE @]

\* The common tail of moveJoint and moveJoints once the limits are passed:
\* install the target, set isMoving, enter waitForMovementComplete.  When the
\* first test of the wait already finds every joint at its target the call
\* returns at once (isMoving := false); otherwise the caller sleeps.
AcceptMove(c, op, args, newTarget) ==
  /\ targetJoints' = newTarget
  /\ issued' = issued + 1
  /\ elapsed' = [elapsed EXCEPT ![c] = 0]
  /\ IF allStopped(newTarget, currentJoints)
     THEN /\ isMoving' = FALSE
          /\ pc' = pc
          /\ lastCall' = Call(op, args, "returned", << >>)
     ELSE /\ isMoving' = TRUE
          /\ pc' = [pc EXCEPT ![c] = "waiting"]
          /\ lastCall' = Call(op, args, "waiting", << >>)
  /\ UNCHANGED << simulationMode, isConnected, currentJoints, endEffectorPose,
                  safetyStatus, quickStop, cycles >>

\* A call that throws before it changed anything.
RejectMove(op, args, error) ==
  /\ lastCall' = Call(op, args, error, << >>)
  /\ UNCHANGED << simulationMode, isConnected, isMoving, currentJoints,
                  targetJoints, endEffectorPose, safetyStatus, quickStop,
                  cycles, pc, issued, elapsed >>

\* The limit loop of moveJoints over indices 0..5 of its argument.
RC_allWithinLimits(vec) ==
  \A i \in Joints : RC_checkJointLimits(i, Elem(vec, i))

\* moveJoints without its limit loop.
RC_moveJointsUnchecked(c, op, args, vec) == AcceptMove(c, op, args, vec)

\* RobotController.moveJoints, called by c with the array vec.
RC_moveJoints(c, op, args, vec) ==
  IF ~RC_allWithinLimits(vec)
  THEN RejectMove(op, args, "error:limits")
  ELSE AcceptMove(c, op, args, vec)

\* A new call takes the first idle caller.
FreeCaller(c) == pc[c] = "idle" /\ \A d \in Callers : d < c => pc[d] # "idle"

\* A moveJoint that builds its target from the rest position instead of
\* the targets in force.
RC_targetFromRest(target, jointIndex, targetAngle) ==
  [Zero6 EXCEPT ![jointIndex] = targetAngle]

\* this.targetJoints[jointIndex] = targetAngle, a write into the array in
\* place.
RC_targetWith(target, jointIndex, targetAngle) ==
  [target EXCEPT ![jointIndex] = targetAngle]

\* RobotController.moveJoint
MoveJoint(c, jointIndex, targetAngle) ==
  /\ FreeCaller(c)
  /\ UNCHANGED trajectory
  /\ IF ~RC_limitsDefined(jointIndex)
     THEN RejectMove("moveJoint", <<jointIndex, targetAngle>>, "error:type")
     ELSE IF ~RC_checkJointLimits(jointIndex, targetAngle)
     THEN RejectMove("moveJoint", <<jointIndex, targetAngle>>, "error:limits")
     ELSE AcceptMove(c, "moveJoint", <<jointIndex, targetAngle>>,
                     RC_targetWith(targetJoints, jointIndex, targetAngle))

MoveJoints(c, vec) ==
  /\ FreeCaller(c)
  /\ UNCHANGED trajectory
  /\ RC_moveJoints(c, "moveJoints", vec, vec)

\* inverseKinematics of each Cartesian request, evaluated once.
IKSolutions == [p \in CartesianInputs |-> inverseKinematics(p)]

\* moveToCartesian returning quietly when there is no solution.
RC_moveToSolutionsQuiet(c, pose, solutions) ==
  IF Len(solutions) = 0
  THEN AcceptMove(c, "moveToCartesian", pose, targetJoints)
  ELSE RC_moveJoints(c, "moveToCartesian", pose,
                     selectOptimalSolution(solutions, currentJoints))

\* moveToCartesian once inverseKinematics has returned solutions.
RC_moveToSolutions(c, pose, solutions) ==
  IF Len(solutions) = 0
  THEN RejectMove("moveToCartesian", pose, "error:no-solution")
  ELSE RC_moveJoints(c, "moveToCartesian", pose,
                     selectOptimalSolution(solutions, currentJoints))

\* RobotController.moveToCartesian
MoveToCartesian(c, pose) ==
  /\ FreeCaller(c)
  /\ UNCHANGED trajectory
  /\ RC_moveToSolutions(c, pose, IKSolutions[pose])

\* waitForMovementComplete returns to its caller, which then sets isMoving
\* := false: at a poll that finds every joint at its target, or when the
\* timeout has run out.  Here the time is left open, a timeout may fall on
\* any poll; WaitPoll below counts the sleeps.
WaitReturn(c) ==
  /\ pc[c] = "waiting"
  /\ pc' = [pc EXCEPT ![c] = "idle"]
  /\ isMoving' = FALSE
  /\ lastCall' = Call("waitForMovementComplete", << >>,
                      IF allStopped(targetJoints, currentJoints)
                      THEN "converged" ELSE "timeout", << >>)
  /\ UNCHANGED << simulationMode, isConnected, currentJoints, targetJoints,
                  endEffectorPose, safetyStatus, quickStop, cycles, issued,
                  elapsed, trajectory >>

\* A wait whose loop condition never becomes false.
WaitNeverExpires(c) == FALSE

\* The loop condition of waitForMovementComplete has become false:
\* Date.now() - startTime has reached the timeout.  Every pass of the loop
\* that does not leave it sleeps 10 ms, and the model counts these sleeps.
WaitExpired(c) == elapsed[c] >= TimeoutPolls

\* waitForMovementComplete, one pass of its loop with the time counted: the
\* loop is left when the timeout has run out or every joint is at its
\* target, and the caller sets isMoving := false; otherwise the pass ends in
\* the 10 ms sleep.
WaitPoll(c) ==
  /\ pc[c] = "waiting"
  /\ IF WaitExpired(c) \/ allStopped(targetJoints, currentJoints)
     THEN /\ pc' = [pc EXCEPT ![c] = "idle"]
          /\ isMoving' = FALSE
          /\ elapsed' = elapsed
          /\ lastCall' = Call("waitForMovementComplete", <<c>>,
                              IF WaitExpired(c) THEN "timeout" ELSE "converged",
                              << >>)
     ELSE /\ pc' = pc
          /\ isMoving' = isMoving
          /\ elapsed' = [elapsed EXCEPT ![c] = Min2(@ + 1, TimeoutPolls)]
          /\ lastCall' = Call("waitForMovementComplete", <<c>>, "sleeping", << >>)
  /\ UNCHANGED << simulationMode, isConnected, currentJoints, targetJoints,
                  endEffectorPose, safetyStatus, quickStop, cycles, issued,
                  trajectory >>

\* The operator's emergency stop (the server's handleEmergencyStop calls
\* RobotController.emergencyStop).
EmergencyStop ==
  /\ Finish("emergencyStop", RC_emergencyStop(Shared(<< >>)))
  /\ UNCHANGED << simulationMode, isConnected, currentJoints, endEffectorPose,
                  cycles, pc, issued,
                  elapsed, trajectory >>

\* RobotController.updateForwardKinematics, as the new endEffectorPose.
FlatPose(pose) ==
  [x |-> pose.position.x, y |-> pose.position.y, z |-> pose.position.z,
   rx |-> pose.orientation.rx, ry |-> pose.orientation.ry,
   rz |-> pose.orientation.rz]

updateForwardKinematics(joints) == FlatPose(forwardKinematics(joints))

\* A simulated step that takes the whole remaining difference at once.
SimStepWhole(target, current) ==
  [i \in Joints |->
    IF Abs(Elem(target, i) - current[i]) > CONVERGE_EPS
    THEN Elem(target, i)
    ELSE current[i]]

\* One simulated interpolation step of the control loop.
SimStep(target, current) ==
  [i \in Joints |->
    LET diff == Elem(target, i) - current[i]
    IN  IF Abs(diff) > CONVERGE_EPS
        THEN current[i] + TruncDiv(diff, SIM_GAIN_DIV)
        ELSE current[i]]

\* What the control timer's callback tests before it does anything: it
\* returns at once when not connected, and then takes the simulated or the
\* real branch.  No test looks at the moves that are waiting.
SimCycleDue == isConnected /\ simulationMode

RealCycleDueWithin(limit) ==
  isConnected /\ ~simulationMode /\ Len(cycles) < limit

RealCycleDue == RealCycleDueWithin(MaxCycles)

\* The invocation n of the callback awaits a write (a read) of the transport.
AwaitingWrite(n) == n \in DOMAIN cycles /\ cycles[n] <= 6

AwaitingRead(n) == n \in DOMAIN cycles /\ cycles[n] > 6

\* The control timer's callback in simulation mode (it awaits nothing).
ControlCycleSim ==
  /\ SimCycleDue
  /\ currentJoints' = SimStep(targetJoints, currentJoints)
  /\ endEffectorPose' = updateForwardKinematics(currentJoints')
  /\ lastCall' = Call("controlCycle", << >>, "ok", << >>)
  /\ UNCHANGED << simulationMode, isConnected, isMoving, targetJoints,
                  safetyStatus, quickStop, cycles, pc, issued,
                  elapsed, trajectory >>

\* The control timer's callback with the real transport, up to its first
\* await: sendTargetPositions has issued the write of joint 1.  An entry k
\* of cycles is an invocation awaiting its k-th transfer: the writes of
\* joints 1..6 (k = 1..6), then the reads of joints 1..6 (k = 7..12).
\* The timer fires whether or not an earlier invocation still awaits the
\* transport; the model follows at most limit invocations at once.
ControlCycleStartWithin(limit) ==
  /\ RealCycleDueWithin(limit)
  /\ cycles' = Append(cycles, 1)
  /\ lastCall' = Call("controlCycle", << >>, "awaiting", << >>)
  /\ UNCHANGED << simulationMode, isConnected, isMoving, currentJoints,
                  targetJoints, endEffectorPose, safetyStatus, quickStop, pc,
                  issued,
                  elapsed, trajectory >>

ControlCycleStart == ControlCycleStartWithin(MaxCycles)

RemoveAt(seq, n) == SubSeq(seq, 1, n - 1) \o SubSeq(seq, n + 1, Len(seq))

\* An awaited write completes: the next write, or the first read, is issued.
ControlCycleWritten(n) ==
  /\ AwaitingWrite(n)
  /\ cycles' = [cycles EXCEPT ![n] = @ + 1]
  /\ lastCall' = Call("controlCycle", << >>, "awaiting", << >>)
  /\ UNCHANGED << simulationMode, isConnected, isMoving, currentJoints,
                  targetJoints, endEffectorPose, safetyStatus, quickStop, pc,
                  issued,
                  elapsed, trajectory >>

\* An awaited read completes with encoderValue: readActualPositions stores
\* the joint and issues the next read; after joint 6 the callback ends with
\* updateForwardKinematics.
ControlCycleRead(n) ==
  /\ AwaitingRead(n)
  /\ LET j == cycles[n] - 6
     IN  /\ \E encoderValue \in EncoderReads(j) :
              currentJoints' = [currentJoints EXCEPT ![j] = encoderToJoint(encoderValue, j)]
         /\ IF j < 6
            THEN /\ cycles' = [cycles EXCEPT ![n] = @ + 1]
                 /\ endEffectorPose' = endEffectorPose
                 /\ lastCall' = Call("controlCycle", << >>, "awaiting", << >>)
            ELSE /\ cycles' = RemoveAt(cycles, n)
                 /\ endEffectorPose' = updateForwardKinematics(currentJoints')
                 /\ lastCall' = Call("controlCycle", << >>, "ok", << >>)
  /\ UNCHANGED << simulationMode, isConnected, isMoving, targetJoints,
                  safetyStatus, quickStop, pc, issued,
                  elapsed, trajectory >>

\* A failed transfer that ends the control loop: the connection is given up
\* and no further cycle starts.
ControlCycleFatal(n) ==
  /\ n \in DOMAIN cycles
  /\ cycles' = RemoveAt(cycles, n)
  /\ isConnected' = FALSE
  /\ lastCall' = Call("controlCycle", << >>, "failed", << >>)
  /\ UNCHANGED << simulationMode, isMoving, currentJoints,
                  targetJoints, endEffectorPose, safetyStatus, quickStop, pc,
                  issued, elapsed, trajectory >>

\* The transfer an invocation awaits fails (writeSDO or readSDO rejects):
\* the error is caught and logged at the end of the callback, which ends
\* without the remaining transfers and without updateForwardKinematics.
ControlCycleFailed(n) ==
  /\ n \in DOMAIN cycles
  /\ cycles' = RemoveAt(cycles, n)
  /\ lastCall' = Call("controlCycle", << >>, "failed", << >>)
  /\ UNCHANGED << simulationMode, isConnected, isMoving, currentJoints,
                  targetJoints, endEffectorPose, safetyStatus, quickStop, pc,
                  issued, elapsed, trajectory >>

\* SafetyMonitor.getStatus.  After the spread of safetyStatus it evaluates
\* this.robotController.isConnected(): the constructor has stored the
\* boolean field isConnected on the instance, which hides the method of the
\* same name on the prototype, so the call is the call of a boolean and
\* throws a TypeError before the joints and the pose are read.
GetStatus ==
  /\ lastCall' = Call("getStatus", << >>,
                      IF isConnected \in BOOLEAN THEN "error:type" ELSE "ok",
                      << >>)
  /\ UNCHANGED << simulationMode, isConnected, isMoving, currentJoints,
                  targetJoints, endEffectorPose, safetyStatus, quickStop,
                  cycles, pc, issued, elapsed, trajectory >>

(***************************************************************************)
(* MotionPlanner: executeTrajectory, executeHoming                         *)
(***************************************************************************)

homePosition == << 0, 0, HALF_PI, 0, HALF_PI, 0 >>

\* Durations and sample times are binary floating-point numbers m * 2^e,
\* rounded to the nearest (ties to even) after every operation.  The model
\* keeps MantissaBits of the 53 bits of the significand.
MantissaBits == 8

RECURSIVE TwoTo(_)
TwoTo(n) == IF n <= 0 THEN 1 ELSE 2 * TwoTo(n - 1)

FloatZero == [m |-> 0, e |-> 0]

\* a / d * 2^e with the quotient a / d brought into [2^(p-1), 2^p).
RECURSIVE Normalize(_, _, _)
Normalize(a, d, e) ==
  IF a >= TwoTo(MantissaBits) * d THEN Normalize(a, 2 * d, e + 1)
  ELSE IF a < TwoTo(MantissaBits - 1) * d THEN Normalize(2 * a, d, e - 1)
  ELSE [a |-> a, d |-> d, e |-> e]

RoundHalfEven(a, d) ==
  IF 2 * (a % d) > d \/ (2 * (a % d) = d /\ (a \div d) % 2 = 1)
  THEN (a \div d) + 1
  ELSE a \div d

Renormalized(m, e) ==
  IF m = TwoTo(MantissaBits)
  THEN [m |-> TwoTo(MantissaBits - 1), e |-> e + 1]
  ELSE [m |-> m, e |-> e]

RoundNormalized(n) == Renormalized(RoundHalfEven(n.a, n.d), n.e)

WithSignOf(num, f) == [m |-> IF num < 0 THEN -f.m ELSE f.m, e |-> f.e]

\* The floating-point number nearest to num / den, for den > 0.
RoundRatio(num, den) ==
  IF num = 0 THEN FloatZero
  ELSE WithSignOf(num, RoundNormalized(Normalize(Abs(num), den, 0)))

ShiftExponent(f, k) == IF f.m = 0 THEN f ELSE [m |-> f.m, e |-> f.e + k]

\* A decimal number of milliseconds written in seconds (0.027 for 27).
FloatOfMillis(ms) == RoundRatio(ms, 1000)

\* x / y for y > 0, and i * x for an integer i.
FloatDiv(x, y) == ShiftExponent(RoundRatio(x.m, y.m), x.e - y.e)

FloatTimesInt(i, x) == ShiftExponent(RoundRatio(i * x.m, 1), x.e)

\* Math.ceil of x >= 0.
FloatCeil(x) ==
  IF x.e >= 0 THEN x.m * TwoTo(x.e)
  ELSE (x.m + TwoTo(-x.e) - 1) \div TwoTo(-x.e)

Sign(f) == IF f.m > 0 THEN 1 ELSE IF f.m < 0 THEN -1 ELSE 0

MagnitudeLess(x, y) == x.e < y.e \/ (x.e = y.e /\ Abs(x.m) < Abs(y.m))

FloatLess(x, y) ==
  \/ Sign(x) < Sign(y)
  \/ Sign(x) = 1 /\ Sign(y) = 1 /\ MagnitudeLess(x, y)
  \/ Sign(x) = -1 /\ Sign(y) = -1 /\ MagnitudeLess(y, x)

\* t / tf in units of 1 / SCALE.
FixedRatio(t, tf) ==
  IF t.e >= tf.e
  THEN RoundDiv(t.m * TwoTo(t.e - tf.e) * SCALE, tf.m)
  ELSE RoundDiv(t.m * SCALE, tf.m * TwoTo(tf.e - t.e))

Cubed(x) == FMul(FMul(x, x), x)

\* 10 x^3 - 15 x^4 + 6 x^5
QuinticBlend(x) ==
  10 * Cubed(x) - 15 * FMul(Cubed(x), x) + 6 * FMul(FMul(Cubed(x), x), x)

\* The sum of coeffs[i] * t^i.  With zero boundary velocities and
\* accelerations the solution of M * coeffs = b is q0, 0, 0,
\* 10 (qf - q0) / tf^3, -15 (qf - q0) / tf^4, 6 (qf - q0) / tf^5, so the sum
\* is q0 + (qf - q0) (10 x^3 - 15 x^4 + 6 x^5) at x = t / tf.  The model
\* forms it in fixed point and rounds after every product, as the machine
\* rounds after every operation of the loop.
QuinticSum(q0, qf, tf, t) ==
  q0 + FMul(qf - q0, QuinticBlend(FixedRatio(t, tf)))

\* The returned function without its two tests of t.
quinticUnclamped(q0, qf, tf, t) == QuinticSum(q0, qf, tf, t)

\* MotionPlanner.quinticPolynomial(q0, qf, tf), the function it returns
\* applied to t.
quinticPolynomial(q0, qf, tf, t) ==
  IF ~FloatLess(FloatZero, t) THEN q0
  ELSE IF ~FloatLess(t, tf) THEN qf
  ELSE QuinticSum(q0, qf, tf, t)

\* One point of generateJointTrajectory: its time and its six positions
\* (the velocities and accelerations, central differences of the same
\* polynomials, are left out).
TrajectoryPoint(startJoints, endJoints, duration, t) ==
  [time |-> t,
   position |-> [j \in Joints |->
                  quinticPolynomial(startJoints[j], endJoints[j], duration, t)]]

\* MotionPlanner.generateJointTrajectory: the points i = 0 .. numPoints at
\* t = i * sampleTime, numPoints = Math.ceil(duration / sampleTime).
generateJointTrajectory(startJoints, endJoints, duration, sampleTime) ==
  [i \in 1..(FloatCeil(FloatDiv(duration, sampleTime)) + 1) |->
     TrajectoryPoint(startJoints, endJoints, duration,
                     FloatTimesInt(i - 1, sampleTime))]

\* s * v for a floating-point s and a length v in units of 1 / SCALE, rounded
\* to the unit.
Scaled(s, v) ==
  IF s.e >= 0 THEN s.m * TwoTo(s.e) * v
  ELSE RoundDiv(s.m * v, TwoTo(-s.e))

\* start + s * (end - start) on each axis.
Lerp(startPos, endPos, s) ==
  [axis \in {"x", "y", "z"} |->
     startPos[axis] + Scaled(s, endPos[axis] - startPos[axis])]

\* One point of generateCartesianTrajectory at t = i * sampleTime, with
\* s = t / duration (the orientation, a slerp of the two orientations at
\* the same s, is left out).
CartesianPoint(startPose, endPose, duration, t) ==
  [time |-> t,
   position |-> Lerp(startPose.position, endPose.position,
                     FloatDiv(t, duration))]

\* MotionPlanner.generateCartesianTrajectory: the points i = 0 .. numPoints,
\* numPoints = Math.ceil(duration / sampleTime).
generateCartesianTrajectory(startPose, endPose, duration, sampleTime) ==
  [i \in 1..(FloatCeil(FloatDiv(duration, sampleTime)) + 1) |->
     CartesianPoint(startPose, endPose, duration,
                    FloatTimesInt(i - 1, sampleTime))]

\* The trajectory executeHoming generates from the joints it reads to
\* homePosition, sampled at its start, its middle and its end (the program
\* samples it every 10 ms); the quintic with zero boundary velocities and
\* accelerations is halfway at half of the duration.
HomingTrajectory(startJoints) ==
  << startJoints,
     [i \in Joints |-> RoundDiv(startJoints[i] + homePosition[i], 2)],
     homePosition >>

\* One iteration of the loop of executeTrajectory: moveJoints(point.position)
\* up to its first await.  When moveJoints throws, the error leaves
\* executeTrajectory and the remaining points are dropped.
SendPoint(c, tr) ==
  /\ FreeCaller(c)
  /\ RC_moveJoints(c, "moveJoints", Head(tr.points), Head(tr.points))
  /\ trajectory' = IF IsError(lastCall'.result) THEN NoTrajectory
                   ELSE [tr EXCEPT !.points = Tail(@), !.caller = c]

\* MotionPlanner.executeHoming: the trajectory is generated from
\* getCurrentJoints() and handed to executeTrajectory, which sends its first
\* point in the same run.
ExecuteHoming(c) ==
  /\ ~trajectory.running
  /\ SendPoint(c, [running |-> TRUE, points |-> HomingTrajectory(currentJoints),
                   caller |-> 0,
                   stoppedAtStart |-> safetyStatus.emergencyStopped])

\* executeTrajectory after the moveJoints of a point has returned and the
\* 10 ms sleep is over: the next point is sent.
TrajectoryNext(c) ==
  /\ trajectory.running
  /\ pc[trajectory.caller] = "idle"
  /\ trajectory.points # << >>
  /\ SendPoint(c, trajectory)

\* executeTrajectory returns after the last point.
TrajectoryEnd ==
  /\ trajectory.running
  /\ pc[trajectory.caller] = "idle"
  /\ trajectory.points = << >>
  /\ trajectory' = NoTrajectory
  /\ lastCall' = Call("executeTrajectory", << >>, "ok", << >>)
  /\ UNCHANGED << simulationMode, isConnected, isMoving, currentJoints,
                  targetJoints, endEffectorPose, safetyStatus, quickStop,
                  cycles, pc, issued, elapsed >>

(***************************************************************************)
(* SafetyMonitor: operations                                               *)
(***************************************************************************)

Emit(st, event) == [st EXCEPT !.events = Append(@, event)]

\* SafetyMonitor.triggerProtectiveStop: target := copy of current.
triggerProtectiveStop(st) ==
  Emit([st EXCEPT !.targetJoints = currentJoints], "protective-stop")

\* triggerEmergencyStop that sets the flag and emits, without the call of
\* the controller's emergencyStop.
triggerEmergencyStopFlagOnly(st) ==
  Emit([st EXCEPT !.safetyStatus.emergencyStopped = TRUE], "emergency-stop")

\* SafetyMonitor.triggerEmergencyStop: set the flag, run the controller's
\* emergencyStop, emit.
triggerEmergencyStop(st) ==
  Emit(RC_emergencyStop([st EXCEPT !.safetyStatus.emergencyStopped = TRUE]),
       "emergency-stop")

\* The violations array built by SafetyMonitor.checkJointLimits, in joint
\* order; each entry keeps the joint number and the side (value and
\* safeValue are left out).
safeMin(n) == jointLimits[n].min + jointLimits[n].margin

safeMax(n) == jointLimits[n].max - jointLimits[n].margin

\* The violations array taken against the hard limits, without the margin.
RECURSIVE JointViolationsHard(_, _)
JointViolationsHard(joints, n) ==
  IF n = 0 THEN << >>
  ELSE IF joints[n] < jointLimits[n].min
  THEN Append(JointViolationsHard(joints, n - 1), [joint |-> n, limit |-> "min"])
  ELSE IF joints[n] > jointLimits[n].max
  THEN Append(JointViolationsHard(joints, n - 1), [joint |-> n, limit |-> "max"])
  ELSE JointViolationsHard(joints, n - 1)

RECURSIVE JointViolations(_, _)
JointViolations(joints, n) ==
  IF n = 0 THEN << >>
  ELSE IF joints[n] < safeMin(n)
  THEN Append(JointViolations(joints, n - 1), [joint |-> n, limit |-> "min"])
  ELSE IF joints[n] > safeMax(n)
  THEN Append(JointViolations(joints, n - 1), [joint |-> n, limit |-> "max"])
  ELSE JointViolations(joints, n - 1)

\* checkJointLimits once the violations array is built.
SM_reportViolations(st, violations) ==
  IF Len(violations) > 0
  THEN Emit(triggerProtectiveStop(
              [st EXCEPT !.safetyStatus.limitViolations = violations]),
            "warning:joint-limit")
  ELSE st

\* SafetyMonitor.checkJointLimits
SM_checkJointLimits(st, joints) ==
  SM_reportViolations(st, JointViolations(joints, 6))

\* The axes on which checkWorkspaceLimits finds the pose outside the box.
WorkspaceViolations(pose) ==
  { axis \in {"x", "y", "z"} :
      \/ pose[axis] < workspaceLimits[axis].min
      \/ pose[axis] > workspaceLimits[axis].max }

\* checkWorkspaceLimits that warns without the protective stop.
checkWorkspaceLimitsWarnOnly(st, pose) ==
  IF WorkspaceViolations(pose) # {}
  THEN Emit(st, "warning:workspace-limit")
  ELSE st

\* SafetyMonitor.checkWorkspaceLimits
checkWorkspaceLimits(st, pose) ==
  IF WorkspaceViolations(pose) # {}
  THEN Emit(triggerProtectiveStop(st), "warning:workspace-limit")
  ELSE st

\* checkCollision that withdraws the stop when it detects no collision.
checkCollisionClearing(st, collided) ==
  IF collided
  THEN Emit(triggerEmergencyStop([st EXCEPT !.safetyStatus.collisionDetected = TRUE]),
            "collision")
  ELSE [st EXCEPT !.safetyStatus.emergencyStopped = FALSE,
                  !.safetyStatus.collisionDetected = FALSE]

\* SafetyMonitor.checkCollision; collided is the outcome of the random draw
\* (collisionProbability > 0.0005).
checkCollision(st, collided) ==
  IF collided
  THEN Emit(triggerEmergencyStop([st EXCEPT !.safetyStatus.collisionDetected = TRUE]),
            "collision")
  ELSE st

\* SafetyMonitor.performSafetyCheck: the three checks in order, on a copy of
\* the joints and of the pose.
performSafetyCheck(st, collided) ==
  IF ~st.safetyStatus.isActive THEN st
  ELSE checkCollision(
         checkWorkspaceLimits(SM_checkJointLimits(st, currentJoints),
                              endEffectorPose),
         collided)

\* The monitor's timer held back while a move waits for convergence.
SafetyCheckWhenIdle ==
  \E collided \in BOOLEAN :
    /\ \A c \in Callers : pc[c] # "waiting"
    /\ Finish("safetyCheck", performSafetyCheck(Shared(<< >>), collided))
    /\ UNCHANGED << simulationMode, isConnected, currentJoints,
                    endEffectorPose, cycles, pc, issued,
                  elapsed, trajectory >>

\* The monitor's 50 ms timer.
SafetyCheck ==
  \E collided \in BOOLEAN :
    /\ Finish("safetyCheck", performSafetyCheck(Shared(<< >>), collided))
    /\ UNCHANGED << simulationMode, isConnected, currentJoints,
                    endEffectorPose, cycles, pc, issued,
                  elapsed, trajectory >>

\* The state of a safety check in which an error is raised after k of its
\* three checks have run (k = 0: while the joints and the pose are read).
ChecksDone(st, collided, k) ==
  IF k = 0 THEN st
  ELSE IF k = 1 THEN SM_checkJointLimits(st, currentJoints)
  ELSE IF k = 2
  THEN checkWorkspaceLimits(SM_checkJointLimits(st, currentJoints),
                            endEffectorPose)
  ELSE performSafetyCheck(st, collided)

\* A catch block that logs the error and does nothing else.
SM_catchLogOnly(st) == [state |-> st, result |-> "caught"]

\* The catch block of performSafetyCheck: log, then triggerEmergencyStop;
\* the callback returns normally to the timer.
SM_catch(st) == [state |-> triggerEmergencyStop(st), result |-> "caught"]

\* A handler ends with the given result.
FinishAs(op, args, out) ==
  /\ Install(out.state)
  /\ lastCall' = Call(op, args, out.result, out.state.events)

\* The monitor's timer callback when something inside the try block of
\* performSafetyCheck throws.
SafetyCheckFault ==
  \E collided \in BOOLEAN : \E k \in 0..3 :
    /\ safetyStatus.isActive
    /\ FinishAs("safetyCheck", <<k>>,
                SM_catch(ChecksDone(Shared(<< >>), collided, k)))
    /\ UNCHANGED << simulationMode, isConnected, currentJoints,
                    endEffectorPose, cycles, pc, issued, elapsed,
                    trajectory >>

\* reset that also sends the arm back to the rest position.
SM_resetAndHome(st) ==
  Emit([st EXCEPT !.safetyStatus.emergencyStopped = FALSE,
                  !.safetyStatus.limitViolations = << >>,
                  !.safetyStatus.collisionDetected = FALSE,
                  !.targetJoints = Zero6,
                  !.isMoving = TRUE],
       "reset")

\* The monitor's timer callback in a run without collisions: the random
\* draw of checkCollision stays below its threshold.
SafetyCheckNoCollision ==
  /\ Finish("safetyCheck", performSafetyCheck(Shared(<< >>), FALSE))
  /\ UNCHANGED << simulationMode, isConnected, currentJoints,
                  endEffectorPose, cycles, pc, issued, elapsed, trajectory >>

\* SafetyMonitor.reset
SM_reset(st) ==
  Emit([st EXCEPT !.safetyStatus.emergencyStopped = FALSE,
                  !.safetyStatus.limitViolations = << >>,
                  !.safetyStatus.collisionDetected = FALSE],
       "reset")

Reset ==
  /\ Finish("reset", SM_reset(Shared(<< >>)))
  /\ UNCHANGED << simulationMode, isConnected, currentJoints,
                  endEffectorPose, cycles, pc, issued,
                  elapsed, trajectory >>

\* isNearSingularity without the wrist band.
isNearSingularityShoulderOnly(joints) ==
  /\ Abs(joints[1]) < 1000
  /\ Abs(joints[2]) < 1000
  /\ joints[1] * joints[1] + joints[2] * joints[2] < 1000 * 1000

\* SafetyMonitor.isNearSingularity: joint 5 within 0.1 rad of +-90 degrees,
\* or sqrt(j1^2 + j2^2) < 0.1.
isNearSingularity(joints) ==
  \/ Abs(Abs(joints[5]) - HALF_PI) < 1000
  \/ /\ Abs(joints[1]) < 1000
     /\ Abs(joints[2]) < 1000
     /\ joints[1] * joints[1] + joints[2] * joints[2] < 1000 * 1000

\* SafetyMonitor.isTargetSafe.  No move, handler or timer of the program
\* calls it.
isTargetSafe(joints) ==
  /\ \A i \in Joints :
       ~(joints[i] < jointLimits[i].min \/ joints[i] > jointLimits[i].max)
  /\ ~isNearSingularity(joints)

\* Values of joints 1, 2, 5 and 6 handed to isTargetSafe: at, just inside
\* and just outside the hard limits, around the shoulder radius 0.1 and
\* around the wrist band | |j5| - pi/2 | < 0.1.
SafeTargetValues ==
  << {-29701, 0, 600, 1000, 29700},
     {0, 800, 22701},
     {-15708, 0, 14708, 14709, 15708, 16708, 22701},
     {0, 62801} >>

SafeTargets ==
  { <<j1, j2, 0, 0, j5, j6>> :
      j1 \in SafeTargetValues[1], j2 \in SafeTargetValues[2],
      j5 \in SafeTargetValues[3], j6 \in SafeTargetValues[4] }

\* A call of safetyMonitor.isTargetSafe(target) between two steps of the
\* program.
IsTargetSafe ==
  \E target \in SafeTargets :
    /\ lastCall' = Call("isTargetSafe", target,
                        IF isTargetSafe(target) THEN "true" ELSE "false",
                        << >>)
    /\ UNCHANGED << simulationMode, isConnected, isMoving, currentJoints,
                    targetJoints, endEffectorPose, safetyStatus, quickStop,
                    cycles, pc, issued, elapsed, trajectory >>

\* Candidates handed to selectOptimalSolution: two at the same distance
\* from every position of a move of joint 1, the target of that move, and a
\* far one.
Candidates ==
  { <<0, 1000, 0, 0, 0, 0>>, <<0, -1000, 0, 0, 0, 0>>,
    <<5000, 0, 0, 0, 0, 0>>, <<0, 0, 0, 0, 0, 30000>> }

MaxCandidates == 3

CandidateLists == UNION { [1..n -> Candidates] : n \in 0..MaxCandidates }

\* A call of selectOptimalSolution(solutions) between two steps of the
\* program; the result is the candidate returned, << >> for null.
SelectOptimalSolution ==
  \E solutions \in CandidateLists :
    /\ lastCall' = Call("selectOptimalSolution", solutions,
                        selectOptimalSolution(solutions, currentJoints),
                        << >>)
    /\ UNCHANGED << simulationMode, isConnected, isMoving, currentJoints,
                    targetJoints, endEffectorPose, safetyStatus, quickStop,
                    cycles, pc, issued, elapsed, trajectory >>

\* Target poses handed to inverseKinematics, in metres and radians: wrist
\* centres within reach of the shoulder, beyond it (0.7 m), beyond the
\* length of the whole arm (1.5 m, 3 m), with and without a rotation.
KinematicsValues ==
  [x |-> {-3000, 0, 3000, 7000, 15000, 30000},
   y |-> {0, 1000},
   z |-> {2670, 5000, 8000},
   rx |-> {0, 3000}]

KinematicsInputs ==
  { Pose(x, y, z, rx, 0, 0) :
      x \in KinematicsValues.x, y \in KinematicsValues.y,
      z \in KinematicsValues.z, rx \in KinematicsValues.rx }

\* A call of kinematics.inverseKinematics(targetPose) between two steps of
\* the program; the result is the list of candidates returned.
InverseKinematics ==
  \E targetPose \in KinematicsInputs :
    /\ lastCall' = Call("inverseKinematics", targetPose,
                        inverseKinematics(targetPose), << >>)
    /\ UNCHANGED << simulationMode, isConnected, isMoving, currentJoints,
                    targetJoints, endEffectorPose, safetyStatus, quickStop,
                    cycles, pc, issued, elapsed, trajectory >>

\* Joint vectors inside the limits and away from both singularity bands;
\* their poses are the reachable poses handed to the round trip.
RoundTripJoints ==
  { <<5000, 0, 0, 0, 0, 0>>, <<5000, -5000, 0, 0, 0, 0>> }

\* forwardKinematics of the candidate selected; nothing for null.
PoseOfSelected(best) ==
  [joints |-> best,
   pose |-> IF best = << >> THEN << >> ELSE forwardKinematics(best)]

\* forwardKinematics(selectOptimalSolution(inverseKinematics(P))) for the
\* pose P of a joint vector, with currentJoints as the seed of the
\* selection.
RoundTripOf(P) ==
  Call("roundTrip", P,
       PoseOfSelected(selectOptimalSolution(inverseKinematics(P),
                                            currentJoints)),
       << >>)

RoundTrip ==
  \E joints \in RoundTripJoints :
    /\ lastCall' = RoundTripOf(forwardKinematics(joints))
    /\ UNCHANGED << simulationMode, isConnected, isMoving, currentJoints,
                    targetJoints, endEffectorPose, safetyStatus, quickStop,
                    cycles, pc, issued, elapsed, trajectory >>

\* quinticPolynomial(q0, qf, tf)(t): positions, and pairs of tf and t in
\* milliseconds, t before, at, inside, at the end of and after [0, tf].
QuinticPositions == {-5000, 0, 5000, 15708}

QuinticTimes ==
  { <<27, t>> : t \in {-1, 0, 1, 13, 26, 27, 28, 40} }
    \cup { <<2000, t>> : t \in {-1000, 0, 1000, 2000, 3000} }

\* A call of the function returned by quinticPolynomial(q0, qf, tf).
QuinticPolynomial ==
  \E q0 \in QuinticPositions, qf \in QuinticPositions, tt \in QuinticTimes :
    /\ lastCall' = Call("quinticPolynomial", <<q0, qf, tt[1], tt[2]>>,
                        quinticPolynomial(q0, qf, FloatOfMillis(tt[1]),
                                          FloatOfMillis(tt[2])),
                        << >>)
    /\ UNCHANGED << simulationMode, isConnected, isMoving, currentJoints,
                    targetJoints, endEffectorPose, safetyStatus, quickStop,
                    cycles, pc, issued, elapsed, trajectory >>

\* generateJointTrajectory(start, end, duration, sampleTime): durations and
\* sample times in milliseconds.
TrajectoryEnds == { Zero6, ScenarioTarget, homePosition }

TrajectoryTimes == { <<20, 10>>, <<25, 10>>, <<27, 9>>, <<63, 9>> }

GenerateJointTrajectory ==
  \E startJoints \in TrajectoryEnds, endJoints \in TrajectoryEnds,
     tt \in TrajectoryTimes :
    /\ lastCall' = Call("generateJointTrajectory",
                        <<startJoints, endJoints, tt[1], tt[2]>>,
                        generateJointTrajectory(startJoints, endJoints,
                                                FloatOfMillis(tt[1]),
                                                FloatOfMillis(tt[2])),
                        << >>)
    /\ UNCHANGED << simulationMode, isConnected, isMoving, currentJoints,
                    targetJoints, endEffectorPose, safetyStatus, quickStop,
                    cycles, pc, issued, elapsed, trajectory >>

\* generateCartesianTrajectory(startPose, endPose, duration, sampleTime):
\* two different poses, a duration that is a whole number of sample times,
\* and one that is not.
CartesianEnds ==
  { Pose(3000, 0, 3000, 0, 0, 0), Pose(4000, 1000, 2000, 0, 0, 0),
    Pose(-2000, 2000, 2500, 0, 0, 0) }

CartesianTimes == { <<20, 10>>, <<25, 10>>, <<1000, 500>> }

GenerateCartesianTrajectory ==
  \E startPose \in CartesianEnds : \E endPose \in CartesianEnds \ {startPose} :
  \E tt \in CartesianTimes :
    /\ lastCall' = Call("generateCartesianTrajectory",
                        <<startPose, endPose, tt[1], tt[2]>>,
                        generateCartesianTrajectory(startPose, endPose,
                                                    FloatOfMillis(tt[1]),
                                                    FloatOfMillis(tt[2])),
                        << >>)
    /\ UNCHANGED << simulationMode, isConnected, isMoving, currentJoints,
                    targetJoints, endEffectorPose, safetyStatus, quickStop,
                    cycles, pc, issued, elapsed, trajectory >>

(***************************************************************************)
(* HandwritingEngine: generateTrajectory                                   *)
(***************************************************************************)

\* The font table, for the characters of the model: two letters with
\* strokes and the space, which has a width and no stroke.  A character
\* without an entry is unknown to the engine.
fontData ==
  ("A" :> [width |-> 20,
           strokes |-> << << <<0, 0>>, <<10, 20>> >>,
                          << <<10, 20>>, <<20, 0>> >>,
                          << <<5, 10>>, <<15, 10>> >> >>])
  @@ ("L" :> [width |-> 14,
              strokes |-> << << <<0, 20>>, <<0, 0>> >>,
                             << <<0, 0>>, <<14, 0>> >> >>])
  @@ (" " :> [width |-> 12, strokes |-> << >>])

\* The default writing parameters, in mm and mm/s.
defaultParams ==
  [fontSize |-> 20, penUpHeight |-> 10, writeDepth |-> 0, charSpacing |-> 25,
   lineSpacing |-> 30, writeSpeed |-> 20, moveSpeed |-> 50]

\* config.fontSize / 20
FontScale == defaultParams.fontSize \div 20

\* text.toUpperCase(), one character.
toUpperCase(char) ==
  IF char = "a" THEN "A" ELSE IF char = "l" THEN "L" ELSE char

\* The points of one stroke, pen down.
StrokePoints(stroke, offsetX, offsetY) ==
  [i \in 1..Len(stroke) |->
     [x |-> offsetX + stroke[i][1] * FontScale,
      y |-> offsetY + (20 - stroke[i][2]) * FontScale,
      z |-> defaultParams.writeDepth,
      penUp |-> FALSE,
      speed |-> defaultParams.writeSpeed]]

RECURSIVE AllStrokePoints(_, _, _)
AllStrokePoints(strokes, offsetX, offsetY) ==
  IF strokes = << >> THEN << >>
  ELSE StrokePoints(Head(strokes), offsetX, offsetY)
         \o AllStrokePoints(Tail(strokes), offsetX, offsetY)

\* HandwritingEngine.generateCharTrajectory
generateCharTrajectory(char, offsetX, offsetY) ==
  IF char \notin DOMAIN fontData THEN << >>
  ELSE AllStrokePoints(fontData[char].strokes, offsetX, offsetY)

\* A pen-up point above (x, y).
PenUpAt(x, y) ==
  [x |-> x, y |-> y, z |-> defaultParams.penUpHeight, penUp |-> TRUE,
   speed |-> defaultParams.moveSpeed]

\* The pen-up move to the first point of the next character: a point above
\* the last point of the trajectory, then a point above firstPoint.
PenUpMove(path, firstPoint) ==
  << PenUpAt(path[Len(path)].x, path[Len(path)].y),
     PenUpAt(firstPoint.x, firstPoint.y) >>

\* The state of the loop of generateTrajectory before any character.
WritingStart ==
  [trajectory |-> << >>, currentX |-> 0, currentY |-> 0, isPenUp |-> TRUE,
   thrown |-> FALSE]

\* The loop body for a character that has an entry in the font table, with
\* its character trajectory.  When the pen is marked down and the
\* trajectory is still empty, lastPoint is trajectory[-1], undefined, and
\* reading lastPoint.x throws a TypeError.
WriteKnownChar(st, char, charTrajectory) ==
  IF ~st.isPenUp /\ Len(charTrajectory) > 0 /\ st.trajectory = << >>
  THEN [st EXCEPT !.thrown = TRUE]
  ELSE [st EXCEPT
          !.trajectory =
             IF ~st.isPenUp /\ Len(charTrajectory) > 0
             THEN @ \o PenUpMove(@, charTrajectory[1]) \o charTrajectory
             ELSE @ \o charTrajectory,
          !.isPenUp = FALSE,
          !.currentX = @ + fontData[char].width * FontScale
                         + defaultParams.charSpacing]

\* One pass of the loop over the characters of the text.
WriteChar(st, char) ==
  IF st.thrown THEN st
  ELSE IF char = "\n"
  THEN [st EXCEPT !.currentX = 0,
                  !.currentY = @ - defaultParams.lineSpacing]
  ELSE IF char \notin DOMAIN fontData
  THEN [st EXCEPT !.currentX = @ + defaultParams.charSpacing]
  ELSE WriteKnownChar(st, char,
                      generateCharTrajectory(char, st.currentX, st.currentY))

RECURSIVE WriteText(_, _)
WriteText(st, text) ==
  IF text = << >> THEN st
  ELSE WriteText(WriteChar(st, toUpperCase(Head(text))), Tail(text))

\* The end of generateTrajectory: the final pen-up point, unless nothing
\* was drawn.
FinalPenUp(path) ==
  IF Len(path) > 0
  THEN Append(path, PenUpAt(path[Len(path)].x, path[Len(path)].y))
  ELSE path

WritingResult(st) ==
  [thrown |-> st.thrown,
   points |-> IF st.thrown THEN << >> ELSE FinalPenUp(st.trajectory)]

\* HandwritingEngine.generateTrajectory(text), text a sequence of
\* characters: whether it threw, and the points it returned.
generateTrajectory(text) == WritingResult(WriteText(WritingStart, text))

\* Texts of up to MaxText characters: letters of the font in either case,
\* the space, the newline and a character the font does not have.
MaxText == 3

TextChars == {"A", "l", " ", "\n", "?"}

Texts == UNION { [1..n -> TextChars] : n \in 0..MaxText }

GenerateTrajectory ==
  \E text \in Texts :
    /\ lastCall' = Call("generateTrajectory", text, generateTrajectory(text),
                        << >>)
    /\ UNCHANGED << simulationMode, isConnected, isMoving, currentJoints,
                    targetJoints, endEffectorPose, safetyStatus, quickStop,
                    cycles, pc, issued, elapsed, trajectory >>

(***************************************************************************)
(* Specification                                                           *)
(***************************************************************************)

\* The model follows a bounded number of accepted commands; a call that is
\* refused is always possible.
Budget(n) == issued < n \/ IsError(lastCall'.result)

Next ==
  \/ \E c \in Callers : \E m \in MoveJointInputs :
       MoveJoint(c, m[1], m[2]) /\ Budget(MaxCommands)
  \/ \E c \in Callers : \E vec \in MoveJointsInputs :
       MoveJoints(c, vec) /\ Budget(MaxCommands)
  \/ \E c \in Callers : \E pose \in CartesianInputs :
       MoveToCartesian(c, pose) /\ Budget(MaxCommands)
  \/ \E c \in Callers : WaitReturn(c)
  \/ EmergencyStop
  \/ ControlCycleSim
  \/ ControlCycleStart
  \/ \E n \in 1..MaxCycles : ControlCycleWritten(n)
  \/ \E n \in 1..MaxCycles : ControlCycleRead(n)
  \/ SafetyCheck
  \/ Reset

Spec == Init /\ [][Next]_vars

\* The program with errors raised inside the safety check.
NextFault ==
  \/ \E c \in Callers : \E m \in MoveJointInputs :
       MoveJoint(c, m[1], m[2]) /\ Budget(MaxCommands)
  \/ \E c \in Callers : WaitReturn(c)
  \/ EmergencyStop
  \/ ControlCycleSim
  \/ ControlCycleStart
  \/ \E n \in 1..MaxCycles : ControlCycleWritten(n)
  \/ \E n \in 1..MaxCycles : ControlCycleRead(n)
  \/ SafetyCheck
  \/ SafetyCheckFault
  \/ Reset

SpecFault == Init /\ [][NextFault]_vars

\* The simulated arm while MotionPlanner executes a homing trajectory.
InitTrajectory == Init /\ simulationMode

NextTrajectory ==
  \/ \E c \in Callers : ExecuteHoming(c) /\ issued < MaxCommands
  \/ \E c \in Callers : TrajectoryNext(c)
  \/ TrajectoryEnd
  \/ \E c \in Callers : WaitReturn(c)
  \/ ControlCycleSim
  \/ SafetyCheck

SpecTrajectory == InitTrajectory /\ [][NextTrajectory]_vars

\* The scenario of a move from home in simulation mode, with the waits
\* timed: one or two moveJoints([0.5,0,0,0,0,0]) calls, the control timer,
\* the safety timer and the polling loops.  A sleeping poll is woken by its
\* 10 ms timer, so every waiting caller eventually takes its next pass.
InitTimed == Init /\ simulationMode

NextTimed ==
  \/ \E c \in Callers : MoveJoints(c, ScenarioTarget) /\ Budget(MaxCalls)
  \/ \E c \in Callers : WaitPoll(c)
  \/ ControlCycleSim
  \/ SafetyCheck

SpecTimed ==
  /\ InitTimed
  /\ [][NextTimed]_vars
  /\ \A c \in Callers : WF_vars(WaitPoll(c))

\* Moves waiting for convergence next to the two timers, in both transport
\* modes.
NextWaiting ==
  \/ \E c \in Callers : MoveJoints(c, ScenarioTarget) /\ Budget(MaxCalls)
  \/ \E c \in Callers : WaitReturn(c)
  \/ ControlCycleSim
  \/ ControlCycleStart
  \/ \E n \in 1..MaxCycles : ControlCycleWritten(n)
  \/ \E n \in 1..MaxCycles : ControlCycleRead(n)
  \/ SafetyCheck

SpecWaiting == Init /\ [][NextWaiting]_vars

\* The control loop with transfers that may fail.
NextTransport ==
  \/ \E c \in Callers : MoveJoints(c, ScenarioTarget) /\ Budget(MaxCommands)
  \/ \E c \in Callers : WaitReturn(c)
  \/ ControlCycleSim
  \/ ControlCycleStart
  \/ \E n \in 1..MaxCycles : ControlCycleWritten(n)
  \/ \E n \in 1..MaxCycles : ControlCycleRead(n)
  \/ \E n \in 1..MaxCycles : ControlCycleFailed(n)
  \/ SafetyCheck
  \/ GetStatus

SpecTransport == Init /\ [][NextTransport]_vars

\* The simulated arm without collisions: moves of joint 1 into the margin
\* and back, with the control timer and the safety timer both firing again
\* and again.
NextRecover ==
  \/ \E c \in Callers : \E m \in RecoverInputs :
       MoveJoint(c, m[1], m[2]) /\ Budget(MaxCalls)
  \/ \E c \in Callers : WaitReturn(c)
  \/ ControlCycleSim
  \/ SafetyCheckNoCollision

\* A cycle of the simulated control timer would change nothing.
SimCycleSettled ==
  SimCycleDue =>
    /\ SimStep(targetJoints, currentJoints) = currentJoints
    /\ updateForwardKinematics(currentJoints) = endEffectorPose
    /\ lastCall = Call("controlCycle", << >>, "ok", << >>)

\* Weak fairness of both timers.  That of the control timer is written out,
\* WF_vars(A) being []<>(~ENABLED <<A>>_vars) \/ []<><<A>>_vars, with
\* SimCycleSettled for ~ENABLED <<ControlCycleSim>>_vars.
SpecRecover ==
  /\ InitTimed
  /\ [][NextRecover]_vars
  /\ ([]<>SimCycleSettled \/ []<><<ControlCycleSim>>_vars)
  /\ WF_vars(SafetyCheckNoCollision)

\* Single-joint moves issued while an earlier move waits, in simulation
\* mode.
NextFrame ==
  \/ \E c \in Callers : MoveJoints(c, ScenarioTarget) /\ Budget(MaxCalls)
  \/ \E c \in Callers : \E m \in FrameInputs :
       MoveJoint(c, m[1], m[2]) /\ Budget(MaxCalls)
  \/ \E c \in Callers : WaitReturn(c)
  \/ ControlCycleSim

SpecFrame == InitTimed /\ [][NextFrame]_vars

\* The real transport with transfers that outlast the period of the control
\* timer, and one move command.
InitReal == Init /\ ~simulationMode

NextOverlap ==
  \/ \E c \in Callers : MoveJoints(c, ScenarioTarget) /\ Budget(MaxCommands)
  \/ \E c \in Callers : WaitReturn(c)
  \/ ControlCycleStartWithin(MaxOverlap)
  \/ \E n \in 1..MaxOverlap : ControlCycleWritten(n)
  \/ \E n \in 1..MaxOverlap : ControlCycleRead(n)

SpecOverlap == InitReal /\ [][NextOverlap]_vars

\* The last step was one of the program's own, not a call of a function
\* that only computes.
AfterProgramStep == lastCall.op \in {"init", "moveJoints", "controlCycle"}

\* The pure functions of the monitor and the controller called while the
\* simulated arm moves.  Such a call writes no field, so a second call in a
\* row sees what the first saw: one call is taken between two steps of the
\* program.
NextFunctions ==
  \/ \E c \in Callers : MoveJoints(c, ScenarioTarget) /\ Budget(MaxCommands)
  \/ ControlCycleSim
  \/ AfterProgramStep /\ IsTargetSafe
  \/ AfterProgramStep /\ SelectOptimalSolution

SpecFunctions == InitTimed /\ [][NextFunctions]_vars

\* The kinematics called while the simulated arm moves, one call between
\* two steps of the program.
NextKinematics ==
  \/ \E c \in Callers : MoveJoints(c, ScenarioTarget) /\ Budget(MaxCommands)
  \/ ControlCycleSim
  \/ AfterProgramStep /\ InverseKinematics
  \/ AfterProgramStep /\ RoundTrip

SpecKinematics == InitTimed /\ [][NextKinematics]_vars

\* The functions of the motion planner that only compute.
NextPlanner ==
  \/ QuinticPolynomial
  \/ GenerateJointTrajectory
  \/ GenerateCartesianTrajectory

SpecPlanner == InitTimed /\ [][NextPlanner]_vars

\* The handwriting engine, which only computes.
SpecHandwriting == InitTimed /\ [][GenerateTrajectory]_vars

(***************************************************************************)
(* Properties                                                              *)
(***************************************************************************)

Range(seq) == { seq[i] : i \in DOMAIN seq }

\* Every action overwrites lastCall, so in a step that changes lastCall the
\* primed lastCall names the handler that made the step.
Emitted(call, event) == event \in Range(call.events)

SameVector(target, current) ==
  Len(target) = 6 /\ \A i \in Joints : target[i] = current[i]

\* C1: in every reachable state, whatever the monitor's flags, the transport
\* and the moves in flight, right after RobotController.emergencyStop has
\* returned targetJoints equals currentJoints in all six joints.
C1_EmergencyStopFreezesTarget ==
  lastCall.op = "emergencyStop" => SameVector(targetJoints, currentJoints)

\* An emergency stop with the real transport, while a move is waiting on
\* joints that have left the rest position and the monitor has already
\* latched its own stop.
C1_Witness ==
  /\ lastCall.op = "emergencyStop"
  /\ ~simulationMode
  /\ \E c \in Callers : pc[c] = "waiting"
  /\ currentJoints # Zero6
  /\ safetyStatus.emergencyStopped

\* C2: once the monitor has triggered an emergency stop (emergencyStopped is
\* set, and stays set until SafetyMonitor.reset), every moveJoint, moveJoints
\* and moveToCartesian call is refused with an error and leaves targetJoints
\* as it was.
C2_MovesRefusedUntilReset ==
  [][ (safetyStatus.emergencyStopped /\ lastCall'.op \in MoveOps)
        => (IsError(lastCall'.result) /\ targetJoints' = targetJoints) ]_vars

\* The requested angle of a moveJoint, or some component of the array of a
\* moveJoints, lies outside the hard limit [min, max] of its joint.
OutOfHardLimit(call) ==
  \/ /\ call.op = "moveJoint"
     /\ call.args[1] \in Joints
     /\ \/ call.args[2] < JOINT_LIMITS[call.args[1]].min
        \/ call.args[2] > JOINT_LIMITS[call.args[1]].max
  \/ /\ call.op = "moveJoints"
     /\ \E i \in Joints :
          /\ i <= Len(call.args)
          /\ \/ call.args[i] < JOINT_LIMITS[i].min
             \/ call.args[i] > JOINT_LIMITS[i].max

\* targetJoints, currentJoints and isMoving are what they were before the
\* step.
MotionStateUnchanged ==
  /\ targetJoints' = targetJoints
  /\ currentJoints' = currentJoints
  /\ isMoving' = isMoving

\* C3: a moveJoint or moveJoints call with a target angle outside the hard
\* limit of its joint fails with an error and leaves targetJoints,
\* currentJoints and isMoving exactly as they were, also when only the last
\* joint of a moveJoints array is out of limit.
C3_OutOfLimitRejected ==
  [][ OutOfHardLimit(lastCall')
        => (IsError(lastCall'.result) /\ MotionStateUnchanged) ]_vars

\* moveJoints with only the last joint out of limit was refused while an
\* earlier move was in flight, its target not yet reached.
C3_Witness ==
  /\ lastCall.op = "moveJoints"
  /\ lastCall.args = <<0, 0, 0, 0, 0, 62900>>
  /\ IsError(lastCall.result)
  /\ isMoving
  /\ targetJoints # currentJoints

\* C4: a moveJoints call whose array has not exactly 6 components is
\* rejected with an error and leaves targetJoints, currentJoints and isMoving
\* unchanged, so that targetJoints has exactly 6 components after every step.
C4_MalformedLengthRejected ==
  [][ /\ (lastCall'.op = "moveJoints" /\ Len(lastCall'.args) # 6)
         => (IsError(lastCall'.result) /\ MotionStateUnchanged)
      /\ Len(targetJoints') = 6 ]_vars

\* C5: moveToCartesian fails with an error when inverseKinematics returns no
\* candidate for the target pose, leaving targetJoints, currentJoints and
\* isMoving unchanged; when there are candidates and the call installs a
\* target, that target is the vector selectOptimalSolution chooses among
\* them for the current joints.
C5_CartesianSolutionOrError ==
  [][ lastCall'.op = "moveToCartesian"
        => IF Len(IKSolutions[lastCall'.args]) = 0
           THEN IsError(lastCall'.result) /\ MotionStateUnchanged
           ELSE ~IsError(lastCall'.result)
                  => targetJoints'
                       = selectOptimalSolution(IKSolutions[lastCall'.args],
                                               currentJoints) ]_vars

\* A pose inside the workspace box but above the arm's reach was refused
\* while an earlier move was in flight.
C5_Witness ==
  /\ lastCall.op = "moveToCartesian"
  /\ lastCall.args = Pose(0, 0, 9000, 0, 0, 0)
  /\ lastCall.result = "error:no-solution"
  /\ isMoving
  /\ targetJoints # currentJoints

\* C6: a moveToCartesian call whose target position lies outside the
\* workspace box on some axis is rejected with an error before any component
\* of targetJoints changes.
C6_OutsideBoxRejected ==
  [][ ( /\ lastCall'.op = "moveToCartesian"
        /\ WorkspaceViolations(lastCall'.args.position) # {} )
        => (IsError(lastCall'.result) /\ targetJoints' = targetJoints) ]_vars

\* C7: a joint vector for which isTargetSafe is false (a joint outside its
\* hard limit, or inside a singularity band) is never installed as
\* targetJoints by a move command.
C7_UnsafeTargetNeverInstalled ==
  (lastCall.op \in MoveOps /\ ~IsError(lastCall.result))
    => isTargetSafe(targetJoints)

\* The joints outside the soft band [min + margin, max - margin].
OffendingJoints(joints) ==
  { i \in Joints : \/ joints[i] < jointLimits[i].min + jointLimits[i].margin
                   \/ joints[i] > jointLimits[i].max - jointLimits[i].margin }

\* C8: when currentJoints has a component outside the soft band, the
\* periodic safety check reports a violation for exactly the offending
\* joints and ends in protective stop, targetJoints equal to currentJoints.
\* (The monitor is active throughout: nothing in the program calls
\* setActive.)
C8_SoftBandProtectiveStop ==
  (lastCall.op = "safetyCheck" /\ OffendingJoints(currentJoints) # {})
    => /\ { v.joint : v \in Range(safetyStatus.limitViolations) }
            = OffendingJoints(currentJoints)
       /\ Emitted(lastCall, "warning:joint-limit")
       /\ Emitted(lastCall, "protective-stop")
       /\ SameVector(targetJoints, currentJoints)

\* A check found joint 1 alone outside its band, inside the hard limit, and
\* froze a move that was in flight; no collision in the same check.
C8_Witness ==
  /\ lastCall.op = "safetyCheck"
  /\ OffendingJoints(currentJoints) = {1}
  /\ Abs(currentJoints[1]) <= JOINT_LIMITS[1].max
  /\ \E c \in Callers : pc[c] = "waiting"
  /\ ~Emitted(lastCall, "collision")

C10_CollisionEmergencyStop ==
  (lastCall.op = "safetyCheck" /\ Emitted(lastCall, "collision"))
    => /\ safetyStatus.collisionDetected
       /\ safetyStatus.emergencyStopped
       /\ Emitted(lastCall, "emergency-stop")
       /\ SameVector(targetJoints, currentJoints)
       /\ ~isMoving
       /\ ~simulationMode => \A i \in Joints : quickStop[i]

\* A collision detected in the check that also made a protective stop, while
\* a move was waiting on joints away from the rest position.
C10_Witness ==
  /\ lastCall.op = "safetyCheck"
  /\ Emitted(lastCall, "collision")
  /\ Emitted(lastCall, "protective-stop")
  /\ \E c \in Callers : pc[c] = "waiting"
  /\ currentJoints # Zero6

\* C11: an error raised inside the try block of performSafetyCheck, while
\* the joints and the pose are read or in any of the three checks, never
\* leaves the callback: the callback returns to the timer with the monitor's
\* emergency stop triggered (emergencyStopped set, targetJoints equal to
\* currentJoints, isMoving false, emergency-stop emitted).
C11_CheckErrorBecomesEmergencyStop ==
  lastCall.op = "safetyCheck" =>
    /\ lastCall.result \in {"ok", "caught"}
    /\ lastCall.result = "caught" =>
         /\ safetyStatus.emergencyStopped
         /\ SameVector(targetJoints, currentJoints)
         /\ ~isMoving
         /\ Emitted(lastCall, "emergency-stop")

\* The error is raised while the state is read, during a move whose target
\* the joints have not reached.
C11_Witness ==
  /\ lastCall.op = "safetyCheck"
  /\ lastCall.result = "caught"
  /\ lastCall.args = <<0>>
  /\ \E c \in Callers : pc[c] = "waiting"
  /\ currentJoints # Zero6
  /\ ~safetyStatus.collisionDetected

\* C12: emergencyStopped is latched.  A step taken while it is set leaves it
\* set, whether the step is a safety check (with or without an error), a
\* control cycle, a move command that is accepted or refused, the return of
\* a wait or the operator's emergency stop; only SafetyMonitor.reset clears
\* it.
C12_StopLatchedUntilReset ==
  [][ (safetyStatus.emergencyStopped /\ lastCall'.op # "reset")
        => safetyStatus'.emergencyStopped ]_vars

\* A move command has been accepted after the monitor's emergency stop and
\* the flag is still set.
C12_Witness ==
  /\ safetyStatus.emergencyStopped
  /\ lastCall.op = "moveJoint"
  /\ lastCall.result = "waiting"

\* What SafetyMonitor.reset does in one step: the three stop indications are
\* cleared and the motion state is left as it was.
ResetFrame ==
  lastCall'.op = "reset" =>
    /\ ~safetyStatus'.emergencyStopped
    /\ ~safetyStatus'.collisionDetected
    /\ safetyStatus'.limitViolations = << >>
    /\ targetJoints' = targetJoints
    /\ currentJoints' = currentJoints
    /\ isMoving' = isMoving

AcceptedMove(call) == call.op \in MoveOps /\ ~IsError(call.result)

\* A step of the monitor or of emergencyStop that copies currentJoints into
\* targetJoints.
Refreeze ==
  /\ lastCall'.op \in {"safetyCheck", "emergencyStop"}
  /\ SameVector(targetJoints', currentJoints)

\* C13, as the code has it: reset clears emergencyStopped, collisionDetected
\* and limitViolations and leaves targetJoints, currentJoints and isMoving
\* unchanged; and targetJoints is changed only by an accepted move command
\* or by a later stop, which sets it to the currentJoints of that moment.
C13_ResetDoesNotResume ==
  [][ /\ ResetFrame
      /\ targetJoints' # targetJoints => (AcceptedMove(lastCall') \/ Refreeze)
    ]_vars

\* A reset after the quick stop of an interrupted move, the target frozen
\* away from the rest position.
C13_Witness ==
  /\ lastCall.op = "reset"
  /\ quickStop[1]
  /\ ~isMoving
  /\ \E c \in Callers : pc[c] = "waiting"
  /\ targetJoints # Zero6

\* An emergency stop has interrupted the move in flight: its caller still
\* waits while isMoving is already false.
Interrupted == ~isMoving /\ \E c \in Callers : pc[c] = "waiting"

\* C13 as stated: reset clears the stop indications without touching the
\* motion state, and after the reset of an interrupted move targetJoints
\* keeps the frozen value until a move command is accepted (here: the step
\* that follows the reset changes targetJoints only if it is an accepted
\* move).
C13_FrozenUntilNewMove ==
  [][ /\ ResetFrame
      /\ (lastCall.op = "reset" /\ Interrupted /\ targetJoints' # targetJoints)
           => AcceptedMove(lastCall')
    ]_vars

\* The step is RobotController.emergencyStop, called by the operator or by
\* the monitor's triggerEmergencyStop.
EmergencyStopStep ==
  \/ lastCall'.op = "emergencyStop"
  \/ lastCall'.op = "safetyCheck" /\ Emitted(lastCall', "emergency-stop")

\* C14: an emergency stop that arrives while a move command waits for
\* convergence, at any point of the control cycle, sets targetJoints to the
\* currentJoints of that instant in all six joints and leaves the waiting
\* callers waiting; and the return of a wait never writes targetJoints, so
\* the interrupted move does not put its own target back.
C14_StopDuringWaitIsWhole ==
  [][ /\ (EmergencyStopStep /\ \E c \in Callers : pc[c] = "waiting")
           => (SameVector(targetJoints', currentJoints) /\ pc' = pc)
      /\ lastCall'.op = "waitForMovementComplete"
           => targetJoints' = targetJoints
    ]_vars

\* The operator's stop arrives while a move waits and a control cycle is
\* between two of its six reads, joint 1 already updated.
C14_Witness ==
  /\ lastCall.op = "emergencyStop"
  /\ \E c \in Callers : pc[c] = "waiting"
  /\ \E n \in DOMAIN cycles : cycles[n] \in 8..12
  /\ currentJoints[1] # 0

\* A control cycle is between two of the six per-joint updates of its
\* readActualPositions: some joints already hold this cycle's value, the
\* others still hold an earlier cycle's.
MidRead == \E n \in DOMAIN cycles : cycles[n] \in 8..12

\* endEffectorPose before the first control cycle has completed.
ZeroPose == [x |-> 0, y |-> 0, z |-> 0, rx |-> 0, ry |-> 0, rz |-> 0]

\* The joints already updated by the cycle in progress differ from what the
\* last completed cycle left: the pose, which is refreshed at the end of a
\* cycle only, no longer belongs to currentJoints.
MixedVector ==
  /\ MidRead
  /\ endEffectorPose # ZeroPose
  /\ endEffectorPose # updateForwardKinematics(currentJoints)

\* C15: the readers of the joint state, the safety check (getCurrentJoints)
\* and emergencyStop (the copy into targetJoints), never run between two of
\* the six per-joint updates of a control cycle, and so never see a vector
\* that mixes the values of two control cycles.
C15_ReadersSeeWholeCycles ==
  lastCall.op \in {"safetyCheck", "emergencyStop"} => ~MixedVector

\* The monitor has triggered an emergency stop since the executeTrajectory
\* call in progress began.
StoppedDuringTrajectory ==
  /\ trajectory.running
  /\ safetyStatus.emergencyStopped
  /\ ~trajectory.stoppedAtStart

\* The step sends a point of the trajectory in progress.
TrajectoryPointSent ==
  /\ trajectory.running
  /\ trajectory'.running
  /\ Len(trajectory'.points) < Len(trajectory.points)

\* C16: once an emergency stop has occurred during the execution of a
\* trajectory, none of its remaining points is written to targetJoints.
C16_TrajectoryDiscardedOnStop ==
  [][ (StoppedDuringTrajectory /\ TrajectoryPointSent)
        => targetJoints' = targetJoints ]_vars

\* C17: a wait never ends in an error, it ends only when every joint is
\* within 0.001 rad of targetJoints or when the timeout has run out since
\* the wait began, and every caller that waits eventually returns.
C17_WaitReturnsConvergedOrTimedOut ==
  /\ [](lastCall.op = "waitForMovementComplete" =>
          /\ lastCall.result \in {"converged", "timeout", "sleeping"}
          /\ lastCall.result # "sleeping" =>
               \/ allStopped(targetJoints, currentJoints)
               \/ elapsed[lastCall.args[1]] >= TimeoutPolls)
  /\ \A c \in Callers : (pc[c] = "waiting") ~> (pc[c] = "idle")

\* A wait has run into its timeout with the joints away from the target.
C17_Witness ==
  /\ lastCall.op = "waitForMovementComplete"
  /\ lastCall.result = "timeout"
  /\ ~allStopped(targetJoints, currentJoints)
  /\ ~isMoving

\* C18: from home in simulation mode, after moveJoints([0.5,0,0,0,0,0], 50)
\* is accepted the control loop brings joint 1 to within 0.001 rad of 0.5
\* and the call returns with isMoving false: whenever the wait of the call
\* ends by its convergence test, joint 1 is at 0.5 and isMoving is false.
C18_MoveFromHomeConverges ==
  (lastCall.op = "waitForMovementComplete" /\ lastCall.result = "converged")
    => /\ Abs(currentJoints[1] - ScenarioTarget[1]) <= CONVERGE_EPS
       /\ ~isMoving

\* A step of the control timer's callback can be taken: a whole simulated
\* cycle, or with the real transport the start of a cycle or the completion
\* of the transfer an invocation awaits.
ControlCycleReady ==
  \/ SimCycleDue
  \/ RealCycleDue
  \/ \E n \in 1..MaxCycles : AwaitingWrite(n) \/ AwaitingRead(n)

C20_PoseInSyncAfterCycle ==
  ( /\ lastCall.op = "controlCycle"
    /\ lastCall.result \in {"ok", "failed"}
    /\ isConnected
    /\ endEffectorPose # ZeroPose )
    => endEffectorPose = updateForwardKinematics(currentJoints)

\* C21: a transfer that fails inside a control cycle is not fatal.  The
\* step that ends the cycle leaves currentJoints as it is (the joints read
\* before the failure keep their new values, the others their last known
\* ones), leaves the controller connected, and a new control cycle can
\* start right after it.
C21_TransportFailureNotFatal ==
  [][ (lastCall'.op = "controlCycle" /\ lastCall'.result = "failed")
        => /\ currentJoints' = currentJoints
           /\ isConnected'
           /\ RealCycleDue' ]_vars

\* The read of joint 2 has failed after joint 1 was stored with a new value.
C21_Witness ==
  /\ lastCall.op = "controlCycle"
  /\ lastCall.result = "failed"
  /\ currentJoints[1] # 0
  /\ currentJoints[2] = 0
  /\ cycles = << >>

\* C22: getStatus succeeds in every reachable state.
C22_GetStatusSucceeds ==
  lastCall.op = "getStatus" => lastCall.result = "ok"

\* A move of joint 1 back to 0 has just been accepted while the joint is
\* held outside its soft band by a protective stop.
FreshMoveAfterProtectiveStop ==
  /\ lastCall.op = "moveJoint"
  /\ lastCall.args = <<1, 0>>
  /\ lastCall.result = "waiting"
  /\ safetyStatus.limitViolations # << >>
  /\ currentJoints[1] > safeMax(1)

\* C23: without collisions and with the control and safety timers firing
\* fairly, a fresh move to a target inside the soft band that is accepted
\* after a protective stop brings currentJoints to that target.
C23_RecoversAfterProtectiveStop ==
  [](FreshMoveAfterProtectiveStop
       => <>(Abs(currentJoints[1] - 0) <= CONVERGE_EPS))

\* C24: after a completed safety check, safetyStatus.limitViolations holds
\* exactly the joints that were outside their soft band in that check; it
\* is empty when every joint was inside.
C24_ViolationsAreCurrent ==
  (lastCall.op = "safetyCheck" /\ lastCall.result = "ok")
    => { v.joint : v \in Range(safetyStatus.limitViolations) }
         = OffendingJoints(currentJoints)

\* The three conditions of a safe target, on a vector of six joints.
WithinHardLimits(t) ==
  \A i \in Joints : jointLimits[i].min <= t[i] /\ t[i] <= jointLimits[i].max

OutsideWristBand(t) == Abs(Abs(t[5]) - HALF_PI) >= 1000

ShoulderProxyAtLeast(t) == t[1] * t[1] + t[2] * t[2] >= 1000 * 1000

\* C25: isTargetSafe(target), on a vector of six joints, returns true
\* exactly when all six joints are within their hard limits, joint 5 is not
\* within 0.1 rad of +-90 degrees and sqrt(j1^2 + j2^2) >= 0.1, false in
\* every other case (j5 = 1.5708 among them); it changes no state.
C25_IsTargetSafeExact ==
  [][ lastCall'.op = "isTargetSafe"
        => /\ (lastCall'.result = "true")
                <=> /\ WithinHardLimits(lastCall'.args)
                    /\ OutsideWristBand(lastCall'.args)
                    /\ ShoulderProxyAtLeast(lastCall'.args)
           /\ lastCall'.result \in {"true", "false"}
           /\ lastCall'.args[5] = 15708 => lastCall'.result = "false"
           /\ UNCHANGED << simulationMode, isConnected, isMoving,
                           currentJoints, targetJoints, endEffectorPose,
                           safetyStatus, quickStop, cycles, pc, issued,
                           elapsed, trajectory >> ]_vars

\* isTargetSafe has refused a target in limits with joint 5 at 90 degrees
\* while the arm is on its way.
C25_Witness ==
  /\ lastCall.op = "isTargetSafe"
  /\ lastCall.args = <<1000, 0, 0, 0, 15708, 0>>
  /\ lastCall.result = "false"
  /\ isMoving /\ currentJoints[1] > 0

\* The sum of the squared joint differences of a candidate from current.
RECURSIVE SumOfSquares(_, _, _)
SumOfSquares(solution, current, n) ==
  IF n = 0 THEN 0
  ELSE SumOfSquares(solution, current, n - 1)
         + (solution[n] - current[n]) * (solution[n] - current[n])

\* best is the first candidate of solutions at the least sum of squares.
FirstNearest(solutions, best, current) ==
  \E k \in 1..Len(solutions) :
    /\ best = solutions[k]
    /\ \A j \in 1..Len(solutions) :
         SumOfSquares(solutions[k], current, 6)
           <= SumOfSquares(solutions[j], current, 6)
    /\ \A j \in 1..(k - 1) :
         SumOfSquares(solutions[k], current, 6)
           < SumOfSquares(solutions[j], current, 6)

\* C26: selectOptimalSolution returns, for a non-empty candidate list, the
\* first candidate whose sum of squared joint differences from
\* currentJoints is minimal, and returns no solution only for the empty
\* list.
C26_SelectsFirstNearest ==
  lastCall.op = "selectOptimalSolution"
    => IF lastCall.args = << >>
       THEN lastCall.result = << >>
       ELSE FirstNearest(lastCall.args, lastCall.result, currentJoints)

\* The first of two candidates at the same distance has been returned
\* while a third one is farther and the arm has left home.
C26_Witness ==
  /\ lastCall.op = "selectOptimalSolution"
  /\ lastCall.args = << <<5000, 0, 0, 0, 0, 0>>, <<0, -1000, 0, 0, 0, 0>>,
                        <<0, 1000, 0, 0, 0, 0>> >>
  /\ lastCall.result = <<0, -1000, 0, 0, 0, 0>>
  /\ currentJoints[1] > 0

\* The length of the arm stretched out: every link length a and link
\* offset d of the chain.
RECURSIVE ArmLength(_)
ArmLength(n) ==
  IF n = 0 THEN 0 ELSE ArmLength(n - 1) + DH_PARAMS[n].a + DH_PARAMS[n].d

\* The position of the pose is farther from the base than the arm is long.
BeyondArmLength(pose) ==
  pose.position.x * pose.position.x + pose.position.y * pose.position.y
    + pose.position.z * pose.position.z > ArmLength(6) * ArmLength(6)

\* The argument D = (r^2 + z_rel^2 - a2^2 - d4^2) / (2 a2 d4) of the position
\* sub-problem, taken at the wrist centre w, is outside [-1, 1]; it is the
\* same for both base branches.
DOutsideUnitInterval(w) ==
  Abs(w.x * w.x + w.y * w.y
        + (w.z - DH_PARAMS[1].d) * (w.z - DH_PARAMS[1].d)
        - DH_PARAMS[2].a * DH_PARAMS[2].a - DH_PARAMS[3].d * DH_PARAMS[3].d)
    > 2 * DH_PARAMS[2].a * DH_PARAMS[3].d

\* C27: inverseKinematics returns no candidate for a target farther from
\* the base than the arm is long, and none whenever D is outside [-1, 1];
\* it never returns more than 4 candidates, and every joint of every
\* candidate is within +-3.5 rad.
C27_InverseKinematicsBounds ==
  lastCall.op = "inverseKinematics"
    => /\ BeyondArmLength(lastCall.args) => lastCall.result = << >>
       /\ DOutsideUnitInterval(
            calculateWristCenter(poseToMatrix(lastCall.args)))
            => lastCall.result = << >>
       /\ Len(lastCall.result) <= 4
       /\ \A k \in 1..Len(lastCall.result) : \A i \in Joints :
            Abs(lastCall.result[k][i]) <= 35000

\* inverseKinematics has returned nothing for a target 1.5 m away while the
\* arm is on its way.
C27_Witness ==
  /\ lastCall.op = "inverseKinematics"
  /\ lastCall.args = Pose(15000, 0, 2670, 0, 0, 0)
  /\ lastCall.result = << >>
  /\ currentJoints[1] > 0

\* Two poses agree within 1e-3 in every position and orientation component.
PoseWithinTolerance(p, q) ==
  /\ Abs(p.position.x - q.position.x) <= 10
  /\ Abs(p.position.y - q.position.y) <= 10
  /\ Abs(p.position.z - q.position.z) <= 10
  /\ Abs(p.orientation.rx - q.orientation.rx) <= 10
  /\ Abs(p.orientation.ry - q.orientation.ry) <= 10
  /\ Abs(p.orientation.rz - q.orientation.rz) <= 10

\* C28: for a reachable pose P inside the workspace and away from
\* singularities, forwardKinematics(selectOptimalSolution(
\* inverseKinematics(P), seed)) is P within 1e-3 in position and in
\* orientation.
C28_RoundTrip ==
  lastCall.op = "roundTrip"
    => /\ lastCall.result.joints # << >>
       /\ PoseWithinTolerance(lastCall.result.pose, lastCall.args)

\* C29: the function returned by quinticPolynomial(q0, qf, tf), tf > 0,
\* returns exactly q0 for every t <= 0 and exactly qf for every t >= tf.
\* (args holds q0, qf, tf and t, the times in milliseconds.)
C29_QuinticClamps ==
  lastCall.op = "quinticPolynomial"
    => /\ lastCall.args[4] <= 0 => lastCall.result = lastCall.args[1]
       /\ lastCall.args[4] >= lastCall.args[3]
            => lastCall.result = lastCall.args[2]

\* The function has returned qf after the end of the motion, and the two
\* ends differ.
C29_Witness ==
  /\ lastCall.op = "quinticPolynomial"
  /\ lastCall.args = <<5000, 15708, 27, 40>>
  /\ lastCall.result = 15708

\* ceil(a / b) for integers a >= 0, b > 0.
CeilDiv(a, b) == (a + b - 1) \div b

\* C30: generateJointTrajectory(start, end, duration, sampleInterval) with
\* duration > 0 and sampleInterval > 0 returns ceil(duration /
\* sampleInterval) + 1 points whose times are i * sampleInterval, strictly
\* increasing; the first position is start and the last is end.
\* (args holds start, end, duration and sampleInterval, the times in
\* milliseconds; a time i * sampleInterval is the product as the machine
\* forms it.)
C30_TrajectoryShape ==
  lastCall.op = "generateJointTrajectory"
    => /\ Len(lastCall.result) = CeilDiv(lastCall.args[3], lastCall.args[4]) + 1
       /\ \A i \in 1..Len(lastCall.result) :
            lastCall.result[i].time
              = FloatTimesInt(i - 1, FloatOfMillis(lastCall.args[4]))
       /\ \A i \in 1..(Len(lastCall.result) - 1) :
            FloatLess(lastCall.result[i].time, lastCall.result[i + 1].time)
       /\ lastCall.result[1].position = lastCall.args[1]
       /\ lastCall.result[Len(lastCall.result)].position = lastCall.args[2]


\* v lies between a and b, whichever of the two is the smaller.
Between(a, v, b) == (a <= v /\ v <= b) \/ (b <= v /\ v <= a)

\* The position p is a point of the segment from startPos to endPos reached
\* with the interpolation parameter time / duration, which lies in [0, 1].
OnSegment(startPos, endPos, duration, point) ==
  /\ ~FloatLess(point.time, FloatZero)
  /\ ~FloatLess(duration, point.time)
  /\ point.position = Lerp(startPos, endPos, FloatDiv(point.time, duration))
  /\ \A axis \in {"x", "y", "z"} :
       Between(startPos[axis], point.position[axis], endPos[axis])

\* C31: generateCartesianTrajectory(startPose, endPose, duration,
\* sampleInterval) with duration > 0 and sampleInterval > 0 interpolates the
\* position linearly: every sample's position lies on the segment from
\* startPose to endPose (interpolation parameter in [0, 1]), the first
\* sample is at the start position and the last at the end position.
C31_CartesianOnSegment ==
  lastCall.op = "generateCartesianTrajectory"
    => /\ \A i \in 1..Len(lastCall.result) :
            OnSegment(lastCall.args[1].position, lastCall.args[2].position,
                      FloatOfMillis(lastCall.args[3]), lastCall.result[i])
       /\ lastCall.result[1].position = lastCall.args[1].position
       /\ lastCall.result[Len(lastCall.result)].position
            = lastCall.args[2].position


\* What one simulated cycle did to joint i, given the difference diff it
\* found: a joint farther than the threshold from its target went one tenth
\* of diff (to the unit of the model) toward it, without passing it and
\* without getting farther from it; any other joint stayed.
SimJointStep(diff, before, after, target) ==
  IF Abs(diff) > CONVERGE_EPS
  THEN /\ Abs(SIM_GAIN_DIV * (after - before) - diff) < SIM_GAIN_DIV
       /\ diff > 0 => after > before /\ after <= target
       /\ diff < 0 => after < before /\ after >= target
       /\ Abs(target - after) <= Abs(diff)
  ELSE after = before

\* C32: in simulation mode one control cycle moves every joint with
\* |target - current| > 0.001 by one tenth of the remaining difference
\* toward its target and leaves every other joint unchanged, so no joint
\* passes its target and no |target - current| grows.
C32_SimCycleStepsOneTenth ==
  [][(simulationMode /\ lastCall'.op = "controlCycle")
       => \A i \in Joints :
            SimJointStep(targetJoints[i] - currentJoints[i], currentJoints[i],
                         currentJoints'[i], targetJoints[i])]_vars

\* A cycle has just taken the first tenth of a move of joints 1 and 5 and
\* left the joints that are at their targets where they were.
C32_Witness ==
  /\ simulationMode
  /\ lastCall.op = "controlCycle"
  /\ targetJoints = <<5000, 0, 0, 0, 15708, 0>>
  /\ currentJoints = <<500, 0, 0, 0, 1570, 0>>


WithinJointLimits(vec) ==
  \A i \in Joints :
    /\ vec[i] >= JOINT_LIMITS[i].min
    /\ vec[i] <= JOINT_LIMITS[i].max

\* C33: in simulation mode, whatever the interleaving of move commands,
\* control cycles, safety checks, stops and resets, all six components of
\* targetJoints and of currentJoints lie within the hard joint limits.
C33_JointsWithinHardLimits ==
  simulationMode
    => WithinJointLimits(targetJoints) /\ WithinJointLimits(currentJoints)

\* A safety check has stopped the simulated arm inside the margin below the
\* upper limit of joint 1 and frozen the target there.
C33_Witness ==
  /\ simulationMode
  /\ lastCall.op = "safetyCheck"
  /\ Emitted(lastCall, "protective-stop")
  /\ currentJoints[1] > safeMax(1)
  /\ targetJoints[1] = currentJoints[1]


\* C34: an accepted moveJoint(i, angle) changes only component i of
\* targetJoints and leaves the targets of the other joints, those of an
\* earlier move that still waits included, as they were; an accepted
\* moveJoints replaces all six targets by its argument.
C34_MoveJointChangesOneTarget ==
  [][/\ (lastCall'.op = "moveJoint" /\ AcceptedMove(lastCall'))
          => /\ Len(targetJoints') = Len(targetJoints)
             /\ targetJoints'[lastCall'.args[1]] = lastCall'.args[2]
             /\ \A i \in DOMAIN targetJoints :
                  i # lastCall'.args[1] => targetJoints'[i] = targetJoints[i]
     /\ (lastCall'.op = "moveJoints" /\ AcceptedMove(lastCall'))
          => targetJoints' = lastCall'.args]_vars

\* moveJoint on joint 2 has been accepted while the earlier moveJoints
\* still waits: the target of joint 1 is still the one that move set.
C34_Witness ==
  /\ lastCall = Call("moveJoint", <<2, 1000>>, "waiting", << >>)
  /\ \A c \in 1..2 : pc[c] = "waiting"
  /\ targetJoints = <<5000, 1000, 0, 0, 0, 0>>


\* Some accepted move is still inside waitForMovementComplete.
MoveInFlight == \E c \in Callers : pc[c] = "waiting"

\* C35: isMoving is true in every state in which an accepted move still
\* waits for convergence and no emergency stop has been issued since it was
\* accepted, and false whenever no move is in flight.  (Where the monitor is
\* the only source of emergency stops and nothing resets it, its flag
\* emergencyStopped is false exactly as long as no emergency stop has been
\* issued.)
C35_IsMovingTracksMoves ==
  /\ (MoveInFlight /\ ~safetyStatus.emergencyStopped) => isMoving
  /\ ~MoveInFlight => ~isMoving


\* C36: every emergency stop, raised by the monitor or requested by the
\* operator through RobotController.emergencyStop (the server's
\* emergency-stop handler), leaves safetyStatus.emergencyStopped true, and
\* the flag stays true until reset() is called.
C36_EveryStopLatched ==
  [][ (EmergencyStopStep
         \/ (safetyStatus.emergencyStopped /\ lastCall'.op # "reset"))
        => safetyStatus'.emergencyStopped ]_vars


\* An invocation of the control cycle has further target writes to issue:
\* it awaits one of its first five.
WritesToCome == \E n \in DOMAIN cycles : cycles[n] < 6

\* C37: with the real transport control cycles do not overlap, a new cycle
\* starts its writes and reads only when no earlier cycle still awaits one
\* of its own; and the six target writes of one cycle carry one and the
\* same targetJoints vector, that is, targetJoints is not replaced between
\* the write of joint 1 and the write of joint 6.
C37_CyclesDoNotOverlap ==
  [][ /\ Len(cycles') > Len(cycles) => cycles = << >>
      /\ WritesToCome => targetJoints' = targetJoints ]_vars


\* C38: generateTrajectory(text) completes without error and returns a
\* point sequence for every text of supported characters (letters, digits,
\* space, newline) and unsupported ones in any order: every pen-up point it
\* inserts has a point before it to refer to, and a result that is not
\* empty ends with a pen-up point at penUpHeight.
C38_TrajectoryForEveryText ==
  lastCall.op = "generateTrajectory"
    => /\ ~lastCall.result.thrown
       /\ \A i \in DOMAIN lastCall.result.points :
            lastCall.result.points[i].penUp => i > 1
       /\ Len(lastCall.result.points) > 0
            => /\ lastCall.result.points[Len(lastCall.result.points)].penUp
               /\ lastCall.result.points[Len(lastCall.result.points)].z
                    = defaultParams.penUpHeight

====
